---- MODULE Spec2Model ----
(***************************************************************************)
(* kane::vector<T,Alloc> (KaneLib/Collections) as a state machine.         *)
(*                                                                         *)
(* The heap is a map from buffer ids to arrays of slots; a pointer is a    *)
(* pair <<buffer id, offset>> and NULL is <<0,0>>.  A slot is either       *)
(* uninitialised (U), holds a moved-from object (MV) or holds a value.     *)
(* Every member function is an operator that takes the machine state X     *)
(* (vectors, heap, faults, source iterators' streams, return register)     *)
(* and the index of the vector it is called on, and returns the machine    *)
(* state after the call.  One action per public operation.                 *)
(***************************************************************************)
EXTENDS Integers, Sequences, FiniteSets, TLC

VARIABLES vec, heap, faults, crashed, traits, mode, last

vars == <<vec, heap, faults, crashed, traits, mode, last>>

\* ---------------------------------------------------------------- bounds
\* element values are 1..MaxVal
MaxVal == 2
\* a sequence of operations keeps at most MaxSize elements in MaxCap slots
MaxSize == 3
MaxCap == 6
\* a vector a single operation is tried on: at most MaxLen elements and
\* MaxSpare spare slots
MaxLen == 3
MaxSpare == 2
\* length of an external source range, and a count argument
MaxSrc == 3
\* the longest source range of a call within a sequence of operations, and
\* the longest replacement range
MaxSeqSrc == 2
MaxRep == 2
MaxCount == 2

\* ------------------------------------------------------- slots, pointers
U == 0
MV == -1
Values == 1..MaxVal
\* value_type(): the value of a value-initialised element
DefaultValue == 1

NULL == <<0, 0>>
PAdd(p, n) == <<p[1], p[2] + n>>
PDiff(p, q) == p[2] - q[2]

Max(a, b) == IF a >= b THEN a ELSE b

\* a local of the source: `auto x = e; rest` is Bind([x \in {e} |-> rest])
Bind(f) == f[CHOOSE x \in DOMAIN f : TRUE]

RECURSIVE Fill(_, _)
Fill(n, x) == IF n <= 0 THEN <<>> ELSE <<x>> \o Fill(n - 1, x)

\* ------------------------------------------------------------ type traits
value_has_trivial_destroy(X) == X.tr.trivial
value_has_trivial_construct(X) == X.tr.trivial
use_simple_insert(X) == X.tr.simple
alloc_propagate_copy(X) == X.tr.propCopy
alloc_propagate_move(X) == X.tr.propMove
alloc_propagate_swap(X) == X.tr.propSwap
alloc_is_always_equal(X) == X.tr.alwaysEq

\* operator== of two allocator instances
AllocEq(X, a, b) == alloc_is_always_equal(X) \/ a = b

\* ------------------------------------------------------------ raw memory
Fault(X, k) == [X EXCEPT !.f = @ \cup {k}]

\* the calls on raw memory made so far within the operation, in order
Logged(X, e) == [X EXCEPT !.log = Append(@, e)]

InBuf(X, p) == p[1] \in DOMAIN X.h /\ p[2] >= 0 /\ p[2] < Len(X.h[p[1]].s)

Slot(X, p) == IF InBuf(X, p) THEN X.h[p[1]].s[p[2] + 1] ELSE U

\* Overwrite the slot at p, without any check
Poke(X, p, x) ==
    IF InBuf(X, p) THEN [X EXCEPT !.h[p[1]].s[p[2] + 1] = x]
    ELSE Fault(X, "wild_write")

\* Reading the object at p (for a copy); a read outside of any live buffer
\* or of an uninitialised object of a non-trivial type is recorded.
ReadFaults(X, p) ==
    IF ~InBuf(X, p) THEN Fault(X, "wild_read")
    ELSE IF Slot(X, p) = U /\ ~value_has_trivial_destroy(X) THEN Fault(X, "read_uninit")
    ELSE IF Slot(X, p) = MV THEN Fault(X, "read_moved_from")
    ELSE X

\* an exception leaves the call: X.ex names it
Throw(X, e) == [X EXCEPT !.ex = e]

\* The allocator throws at the allocation X.failAt of the call (buffers are
\* numbered from 3 within a call).  Nothing in the source catches: the call
\* ends there, in the state it had reached, which is remembered in X.snap;
\* what the model computes after it is dropped when the call ends
OutOfMemory(X) == X.snap = <<>> /\ X.failAt = X.n - 2
Remembered(X) == [X EXCEPT !.snap = <<[v |-> X.v, h |-> X.h, f |-> X.f]>>]
Unwound(X) ==
    IF X.snap = <<>> THEN X
    ELSE [X EXCEPT !.v = X.snap[1].v, !.h = X.snap[1].h, !.f = X.snap[1].f]

\* allocator_traits::allocate(m_allocator(), sz): a fresh buffer of sz
\* uninitialised slots; the pointer is left in X.r
allocate(X, i, sz) ==
    Bind([Y \in {IF OutOfMemory(X) THEN Throw(Remembered(X), "bad_alloc") ELSE X} |->
        [Y EXCEPT !.h = [k \in DOMAIN X.h \cup {X.n} |->
                            IF k = X.n THEN [a |-> X.v[i].al, s |-> Fill(sz, U)] ELSE X.h[k]],
                  !.r = <<X.n, 0>>,
                  !.n = @ + 1,
                  !.log = Append(@, <<"allocate", X.n, 0>>)]])

\* allocator_traits::deallocate(m_allocator(), p, sz)
deallocate(X0, i, p, sz) ==
    Bind([X \in {Logged(X0, <<"deallocate", p[1], p[2]>>)} |->
    IF p = NULL /\ sz = 0 THEN Fault(X, "dealloc_null")
    ELSE IF p[1] \in DOMAIN X.h /\ p[2] = 0
    THEN Bind([b \in {X.h[p[1]]} |->
         Bind([Y \in {IF Len(b.s) # sz THEN Fault(X, "dealloc_wrong_size") ELSE X} |->
         Bind([Z \in {IF ~AllocEq(X, b.a, X.v[i].al) THEN Fault(Y, "dealloc_wrong_allocator") ELSE Y} |->
         Bind([W \in {IF ~value_has_trivial_destroy(X) /\ \E k \in 1..Len(b.s) : b.s[k] # U
                      THEN Fault(Z, "dealloc_live_elements") ELSE Z} |->
             [W EXCEPT !.h = [k \in DOMAIN X.h \ {p[1]} |-> X.h[k]]]])])])])
    ELSE Fault(X, "dealloc_bad_pointer")])

\* deallocate(p, c) with the capacity taken from two pointers
deallocate_pp(X, i, p, c) == deallocate(X, i, p, PDiff(c, p))

\* construct(p, x): placement-construct the value x at p
construct(X, p, x) ==
    IF ~InBuf(X, p) THEN Fault(X, "wild_write")
    ELSE Bind([Y \in {IF ~value_has_trivial_destroy(X) /\ Slot(X, p) # U
                      THEN Fault(X, "construct_on_live") ELSE X} |->
             Poke(Y, p, x)])

\* *p = x
assign(X, p, x) ==
    IF ~InBuf(X, p) THEN Fault(X, "wild_write")
    ELSE Bind([Y \in {IF ~value_has_trivial_destroy(X) /\ Slot(X, p) = U
                      THEN Fault(X, "assign_to_uninit") ELSE X} |->
             Poke(Y, p, x)])

\* destroy(p): the destructor; nothing happens for a trivial destructor
destroy_1(X, p) ==
    IF value_has_trivial_destroy(X) THEN X
    ELSE IF ~InBuf(X, p) THEN Fault(X, "wild_write")
    ELSE Bind([Y \in {IF Slot(X, p) = U THEN Fault(X, "destroy_uninit") ELSE X} |->
             Logged(Poke(Y, p, U), <<"destroy", p[1], p[2]>>)])

\* --------------------------------------------------------------- iterators
\* An iterator is a pointer into the heap (possibly wrapped in a
\* move_iterator), a multi-pass iterator over the external sequence X.src,
\* or a single-pass iterator over the stream X.st that caches the element
\* it stands on, as std::istream_iterator does.
PtrIt(p) == [k |-> "ptr", p |-> p, mv |-> FALSE]
MoveIt(p) == [k |-> "ptr", p |-> p, mv |-> TRUE]
FwdIt(j) == [k |-> "fwd", j |-> j, mv |-> FALSE]
InIt(c) == [k |-> "in", c |-> c]
InEnd == InIt(0)
\* a const_reference argument: to an object outside of the vector, or to
\* the object at p
ValRef(x) == [k |-> "val", c |-> x]
PtrRef(p) == PtrIt(p)

ItEq(a, b) ==
    IF a.k = "ptr" THEN a.p = b.p
    ELSE IF a.k = "fwd" THEN a.j = b.j
    ELSE IF a.k = "val" THEN a.c = b.c
    ELSE (a.c = 0) = (b.c = 0)

\* *it
ItVal(X, it) ==
    IF it.k = "ptr" THEN Slot(X, it.p)
    ELSE IF it.k = "fwd" THEN (IF it.j \in 1..Len(X.src) THEN X.src[it.j] ELSE U)
    ELSE it.c

\* the machine after the element at it was read to initialise another one
ItRead(X, it) ==
    IF it.k = "ptr"
    THEN Bind([Y \in {ReadFaults(X, it.p)} |->
         Bind([Z \in {IF it.mv THEN Logged(Y, <<"move", it.p[1], it.p[2]>>) ELSE Y} |->
             IF it.mv /\ ~value_has_trivial_destroy(X) /\ InBuf(X, it.p) THEN Poke(Z, it.p, MV) ELSE Z])])
    ELSE IF it.k = "fwd"
    THEN (IF it.j \in 1..Len(X.src)
          THEN Bind([Y \in {IF X.src[it.j] = MV THEN Fault(X, "read_moved_from") ELSE X} |->
                   IF it.mv /\ ~value_has_trivial_destroy(X) THEN [Y EXCEPT !.src[it.j] = MV] ELSE Y])
          ELSE Fault(X, "source_overrun"))
    ELSE IF it.k = "val" THEN X
    ELSE IF it.c = 0 THEN Fault(X, "source_overrun") ELSE X

\* ++it: the iterator, and the machine (a single-pass iterator consumes
\* the stream)
ItNext(X, it) ==
    IF it.k = "ptr" THEN [it EXCEPT !.p = PAdd(@, 1)]
    ELSE IF it.k = "fwd" THEN [it EXCEPT !.j = @ + 1]
    ELSE IF it.k = "val" THEN it
    ELSE IF X.st = <<>> THEN InEnd ELSE InIt(Head(X.st))

ItAdvance(X, it) ==
    IF it.k = "in" /\ X.st # <<>> THEN [X EXCEPT !.st = Tail(@)] ELSE X

\* std::distance(first, last); a single-pass range is consumed by it
RECURSIVE distance(_, _, _)
distance(X, first, lst) ==
    IF ItEq(first, lst) THEN [X EXCEPT !.r = 0]
    ELSE Bind([Y \in {distance(ItAdvance(X, first), ItNext(X, first), lst)} |->
             [Y EXCEPT !.r = @ + 1]])

\* std::move(*it): the element is moved from when it lives in the heap
Moving(it) == IF it.k \in {"ptr", "fwd"} THEN [it EXCEPT !.mv = TRUE] ELSE it

\* construct(p, *it) and *p = *it
construct_from(X, p, it) == construct(ItRead(X, it), p, ItVal(X, it))
assign_from(X, p, it) == assign(ItRead(X, it), p, ItVal(X, it))

\* size_type arithmetic wraps around; a count of HugeCount or more is one
\* that wrapped, and a loop over it runs off the address space
SizeBits == 6
SizeMod == 2 ^ SizeBits
Wrap(n) == n % SizeMod
HugeCount == SizeMod \div 2

\* ------------------------------------------------- array_container_base
\* Each helper leaves the returned pointer in X.r and the returned
\* iterator in X.it.

RECURSIVE destroy(_, _, _)
destroy(X, first, lst) ==
    IF value_has_trivial_destroy(X) THEN [X EXCEPT !.r = lst]
    ELSE IF first = lst THEN [X EXCEPT !.r = lst]
    ELSE IF PDiff(lst, first) < 0 \/ first[1] # lst[1] THEN Fault([X EXCEPT !.r = lst], "bad_range")
    ELSE destroy(destroy_1(X, first), PAdd(first, 1), lst)


RECURSIVE construct_range_loop(_, _, _)
construct_range_loop(X, first, lst) ==
    IF first = lst THEN X
    ELSE IF PDiff(lst, first) < 0 \/ first[1] # lst[1] THEN Fault(X, "bad_range")
    ELSE construct_range_loop(construct(X, first, DefaultValue), PAdd(first, 1), lst)

\* construct_range(first, last)
construct_range(X, first, lst) ==
    Bind([Y \in {IF ~value_has_trivial_construct(X) THEN construct_range_loop(X, first, lst) ELSE X} |->
        [Y EXCEPT !.r = lst]])

RECURSIVE construct_range_val_loop(_, _, _, _)
construct_range_val_loop(X, first, lst, val) ==
    IF first = lst THEN X
    ELSE IF PDiff(lst, first) < 0 \/ first[1] # lst[1] THEN Fault(X, "bad_range")
    ELSE construct_range_val_loop(construct_from(X, first, val), PAdd(first, 1), lst, val)

\* construct_range(first, last, val)
construct_range_val(X, first, lst, val) ==
    [construct_range_val_loop(X, first, lst, val) EXCEPT !.r = lst]

\* construct_n(first, n)
construct_n(X, first, n) ==
    IF n >= HugeCount THEN Fault([X EXCEPT !.r = PAdd(first, n)], "runaway_loop")
    ELSE IF ~value_has_trivial_construct(X)
    THEN [construct_range_loop(X, first, PAdd(first, n)) EXCEPT !.r = PAdd(first, n)]
    ELSE [X EXCEPT !.r = PAdd(first, n)]

\* construct_n(first, n, val)
construct_n_val(X, first, n, val) ==
    IF n >= HugeCount THEN Fault([X EXCEPT !.r = PAdd(first, n)], "runaway_loop")
    ELSE [construct_range_val_loop(X, first, PAdd(first, n), val) EXCEPT !.r = PAdd(first, n)]

RECURSIVE copy_construct_from_range(_, _, _, _)
copy_construct_from_range(X, first1, first2, last2) ==
    IF ItEq(first2, last2) THEN [X EXCEPT !.r = first1]
    ELSE copy_construct_from_range(ItAdvance(construct_from(X, first1, first2), first2),
                                   PAdd(first1, 1), ItNext(X, first2), last2)

RECURSIVE move_construct_from_range(_, _, _, _)
move_construct_from_range(X, first1, first2, last2) ==
    IF ItEq(first2, last2) THEN [X EXCEPT !.r = first1]
    ELSE IF first2.k = "ptr" /\ (PDiff(last2.p, first2.p) < 0 \/ first2.p[1] # last2.p[1])
         THEN Fault([X EXCEPT !.r = first1], "bad_range")
    ELSE move_construct_from_range(ItAdvance(construct_from(X, first1, Moving(first2)), first2),
                                   PAdd(first1, 1), ItNext(X, first2), last2)

RECURSIVE copy_construct_range(_, _, _, _)
copy_construct_range(X, first1, last1, first2) ==
    IF first1 = last1 THEN [X EXCEPT !.it = first2]
    ELSE IF PDiff(last1, first1) < 0 \/ first1[1] # last1[1] THEN Fault([X EXCEPT !.it = first2], "bad_range")
    ELSE copy_construct_range(ItAdvance(construct_from(X, first1, first2), first2),
                              PAdd(first1, 1), last1, ItNext(X, first2))

RECURSIVE move_construct_range(_, _, _, _)
move_construct_range(X, first1, last1, first2) ==
    IF first1 = last1 THEN [X EXCEPT !.it = first2]
    ELSE IF PDiff(last1, first1) < 0 \/ first1[1] # last1[1] THEN Fault([X EXCEPT !.it = first2], "bad_range")
    ELSE move_construct_range(ItAdvance(construct_from(X, first1, Moving(first2)), first2),
                              PAdd(first1, 1), last1, ItNext(X, first2))

RECURSIVE copy_construct_range_n(_, _, _, _)
copy_construct_range_n(X, dest, src, count) ==
    IF count = 0 THEN [X EXCEPT !.r = dest, !.it = src]
    ELSE copy_construct_range_n(ItAdvance(construct_from(X, dest, src), src),
                                PAdd(dest, 1), ItNext(X, src), count - 1)

RECURSIVE move_construct_range_n(_, _, _, _)
move_construct_range_n(X, dest, src, count) ==
    IF count = 0 THEN [X EXCEPT !.r = dest, !.it = src]
    ELSE move_construct_range_n(ItAdvance(construct_from(X, dest, Moving(src)), src),
                                PAdd(dest, 1), ItNext(X, src), count - 1)

RECURSIVE checked_construct_loop(_, _, _, _, _, _)
checked_construct_loop(X, first1, last1, first2, last2, mv) ==
    IF first1 = last1 \/ ItEq(first2, last2) THEN [X EXCEPT !.r = first1, !.it = first2]
    ELSE checked_construct_loop(
            ItAdvance(construct_from(X, first1, IF mv THEN Moving(first2) ELSE first2), first2),
            PAdd(first1, 1), last1, ItNext(X, first2), last2, mv)

\* checked_copy_construct_range(first1, last1, first2, last2); pointers are
\* the random-access iterators of the model
checked_copy_construct_range(X, first1, last1, first2, last2) ==
    IF first2.k = "ptr"
    THEN Bind([dist1 \in {PDiff(last1, first1)} |->
         Bind([dist2 \in {PDiff(last2.p, first2.p)} |->
         Bind([end1 \in {IF dist2 < dist1 THEN PAdd(first1, dist2) ELSE last1} |->
         Bind([Y \in {copy_construct_range(X, first1, end1, first2)} |->
             [Y EXCEPT !.r = end1]])])])])
    ELSE checked_construct_loop(X, first1, last1, first2, last2, FALSE)

checked_move_construct_range(X, first1, last1, first2, last2) ==
    IF first2.k = "ptr"
    THEN Bind([dist1 \in {PDiff(last1, first1)} |->
         Bind([dist2 \in {PDiff(last2.p, first2.p)} |->
         Bind([end1 \in {IF dist2 < dist1 THEN PAdd(first1, dist2) ELSE last1} |->
         Bind([Y \in {move_construct_range(X, first1, end1, first2)} |->
             [Y EXCEPT !.r = end1]])])])])
    ELSE checked_construct_loop(X, first1, last1, first2, last2, TRUE)

RECURSIVE assign_range_val_loop(_, _, _, _)
assign_range_val_loop(X, first, lst, val) ==
    IF first = lst THEN X
    ELSE IF PDiff(lst, first) < 0 \/ first[1] # lst[1] THEN Fault(X, "bad_range")
    ELSE assign_range_val_loop(assign_from(X, first, val), PAdd(first, 1), lst, val)

\* assign_range(first, last, val)
assign_range_val(X, first, lst, val) ==
    IF value_has_trivial_destroy(X) THEN construct_range_val(X, first, lst, val)
    ELSE [assign_range_val_loop(X, first, lst, val) EXCEPT !.r = lst]

\* assign_range(first, last)
assign_range(X, first, lst) ==
    IF value_has_trivial_destroy(X) THEN construct_range(X, first, lst)
    ELSE assign_range_val(X, first, lst, ValRef(DefaultValue))

\* assign_n(first, count, val)
assign_n_val(X, first, count, val) ==
    IF value_has_trivial_destroy(X) THEN construct_n_val(X, first, count, val)
    ELSE [assign_range_val_loop(X, first, PAdd(first, count), val) EXCEPT !.r = PAdd(first, count)]

\* assign_n(first, count)
assign_n(X, first, count) ==
    IF value_has_trivial_destroy(X) THEN construct_n(X, first, count)
    ELSE assign_n_val(X, first, count, ValRef(DefaultValue))

RECURSIVE assign_from_range_loop(_, _, _, _, _)
assign_from_range_loop(X, first1, first2, last2, mv) ==
    IF ItEq(first2, last2) THEN [X EXCEPT !.r = first1]
    ELSE IF first2.k = "ptr" /\ (PDiff(last2.p, first2.p) < 0 \/ first2.p[1] # last2.p[1])
         THEN Fault([X EXCEPT !.r = first1], "bad_range")
    ELSE assign_from_range_loop(
            ItAdvance(assign_from(X, first1, IF mv THEN Moving(first2) ELSE first2), first2),
            PAdd(first1, 1), ItNext(X, first2), last2, mv)


copy_assign_from_range(X, first1, first2, last2) ==
    IF value_has_trivial_destroy(X) THEN copy_construct_from_range(X, first1, first2, last2)
    ELSE assign_from_range_loop(X, first1, first2, last2, FALSE)

move_assign_from_range(X, first1, first2, last2) ==
    IF value_has_trivial_destroy(X) THEN move_construct_from_range(X, first1, first2, last2)
    ELSE assign_from_range_loop(X, first1, first2, last2, TRUE)

RECURSIVE assign_range_from_loop(_, _, _, _, _)
assign_range_from_loop(X, first1, last1, first2, mv) ==
    IF first1 = last1 THEN [X EXCEPT !.it = first2]
    ELSE IF PDiff(last1, first1) < 0 \/ first1[1] # last1[1] THEN Fault([X EXCEPT !.it = first2], "bad_range")
    ELSE assign_range_from_loop(
            ItAdvance(assign_from(X, first1, IF mv THEN Moving(first2) ELSE first2), first2),
            PAdd(first1, 1), last1, ItNext(X, first2), mv)

copy_assign_range(X, first1, last1, first2) ==
    IF value_has_trivial_destroy(X) THEN copy_construct_range(X, first1, last1, first2)
    ELSE assign_range_from_loop(X, first1, last1, first2, FALSE)


RECURSIVE checked_assign_loop(_, _, _, _, _, _)
checked_assign_loop(X, first1, last1, first2, last2, mv) ==
    IF first1 = last1 \/ ItEq(first2, last2) THEN [X EXCEPT !.r = first1, !.it = first2]
    ELSE checked_assign_loop(
            ItAdvance(assign_from(X, first1, IF mv THEN Moving(first2) ELSE first2), first2),
            PAdd(first1, 1), last1, ItNext(X, first2), last2, mv)

checked_copy_assign_range(X, first1, last1, first2, last2) ==
    IF value_has_trivial_destroy(X) THEN checked_copy_construct_range(X, first1, last1, first2, last2)
    ELSE checked_assign_loop(X, first1, last1, first2, last2, FALSE)


\* ------------------------------------------------------------ vector_base
m_data(X, i) == X.v[i].data
m_size(X, i) == X.v[i].size
m_capacity(X, i) == X.v[i].cap
m_allocator(X, i) == X.v[i].al

size(X, i) == PDiff(m_size(X, i), m_data(X, i))
capacity(X, i) == PDiff(m_capacity(X, i), m_data(X, i))
available(X, i) == PDiff(m_capacity(X, i), m_size(X, i))
empty(X, i) == m_data(X, i) = m_size(X, i)
full(X, i) == m_size(X, i) = m_capacity(X, i)

ibegin(X, i) == m_data(X, i)
iend(X, i) == m_size(X, i)
ubegin(X, i) == iend(X, i)
uend(X, i) == m_capacity(X, i)

\* iend(newSize)
set_iend(X, i, newSize) == [X EXCEPT !.v[i].size = newSize]

\* reset(), reset(ds, cap), reset(d, s, c) with c a pointer, reset(d, s, c)
\* with c a size
reset(X, i) ==
    [X EXCEPT !.v[i].data = NULL, !.v[i].size = NULL, !.v[i].cap = NULL,
              !.log = Append(@, <<"reset", 0, 0>>)]
reset_ds_n(X, i, ds, cp) ==
    [X EXCEPT !.v[i].data = ds, !.v[i].size = ds, !.v[i].cap = PAdd(ds, cp),
              !.log = Append(@, <<"reset", ds[1], ds[2]>>)]
reset_dsc(X, i, d, s, c) ==
    [X EXCEPT !.v[i].data = d, !.v[i].size = s, !.v[i].cap = c,
              !.log = Append(@, <<"reset", d[1], d[2]>>)]
reset_dsn(X, i, d, s, c) ==
    [X EXCEPT !.v[i].data = d, !.v[i].size = s, !.v[i].cap = PAdd(d, c),
              !.log = Append(@, <<"reset", d[1], d[2]>>)]

many(X, i, sz) == Wrap(size(X, i) + sz) > capacity(X, i)
few(X, i, sz) == Wrap(size(X, i) + sz) <= capacity(X, i)

\* mutants of next_capacity: no growth at all, and growth by one element
next_capacity_stuck(sz) == sz
next_capacity_by_one(sz) == sz + 1

next_capacity(sz) == IF sz # 0 THEN sz * 2 ELSE 2

best_capacity(X, i, needed) == Max(needed, next_capacity(capacity(X, i)))

first_capacity_increment == next_capacity(0)
second_capacity_increment == next_capacity(first_capacity_increment)

really_reallocate(X, i, oldCapacity, newCapacity) ==
    Bind([X1 \in {allocate(X, i, newCapacity)} |->
    Bind([newData \in {X1.r} |->
    Bind([X2 \in {IF m_data(X1, i) # NULL
                  THEN Bind([Y1 \in {move_construct_from_range(X1, newData, PtrIt(ibegin(X1, i)), PtrIt(iend(X1, i)))} |->
                       Bind([Y2 \in {destroy(Y1, ibegin(Y1, i), iend(Y1, i))} |->
                       Bind([Y3 \in {deallocate(Y2, i, m_data(Y2, i), oldCapacity)} |->
                           [Y3 EXCEPT !.r = Y1.r]])])])
                  ELSE [X1 EXCEPT !.r = newData]} |->
        reset_dsn(X2, i, newData, X2.r, newCapacity)])])])

\* reallocate()
reallocate(X, i) == really_reallocate(X, i, capacity(X, i), next_capacity(capacity(X, i)))

\* reallocate(newCapacity)
reallocate_to(X, i, newCapacity) ==
    Bind([oldCapacity \in {capacity(X, i)} |->
        IF newCapacity > oldCapacity THEN really_reallocate(X, i, oldCapacity, newCapacity) ELSE X])

\* the loop `while(dest != position) { src = dest - 1; construct-or-assign; dest = src; }`
RECURSIVE shift_back_loop(_, _, _, _)
shift_back_loop(X, dest, position, asg) ==
    IF dest = position THEN X
    ELSE IF PDiff(dest, position) < 0 THEN Fault(X, "bad_range")
    ELSE Bind([src \in {PAdd(dest, -1)} |->
         Bind([Y \in {IF asg THEN assign_from(X, dest, MoveIt(src)) ELSE construct_from(X, dest, MoveIt(src))} |->
             shift_back_loop(Y, src, position, asg)])])

move_forward_1(X, i, position) ==
    Bind([X0 \in {IF position = iend(X, i) THEN Fault(X, "assert_move_forward_1") ELSE X} |->
    Bind([dest \in {iend(X0, i)} |->
    Bind([X1 \in {IF value_has_trivial_destroy(X)
                  THEN shift_back_loop(X0, dest, position, FALSE)
                  ELSE Bind([src \in {PAdd(dest, -1)} |->
                       Bind([Y \in {construct_from(X0, dest, MoveIt(src))} |->
                           shift_back_loop(Y, src, position, TRUE)])])} |->
        [X1 EXCEPT !.v[i].size = PAdd(@, 1)]])])])

\* the loop `while(src != position) { --src; --dest; construct(dest, move(*src)); }`
RECURSIVE move_back_construct(_, _, _, _)
move_back_construct(X, src, dest, position) ==
    IF src = position THEN [X EXCEPT !.r = dest]
    ELSE IF PDiff(src, position) < 0 THEN Fault([X EXCEPT !.r = dest], "bad_range")
    ELSE move_back_construct(construct_from(X, PAdd(dest, -1), MoveIt(PAdd(src, -1))),
                             PAdd(src, -1), PAdd(dest, -1), position)

\* the loop `while(src != position) { --dest; --src; *dest = move(*src); }`
RECURSIVE move_back_assign(_, _, _, _)
move_back_assign(X, src, dest, position) ==
    IF src = position THEN [X EXCEPT !.r = dest]
    ELSE IF PDiff(src, position) < 0 THEN Fault([X EXCEPT !.r = dest], "bad_range")
    ELSE move_back_assign(assign_from(X, PAdd(dest, -1), MoveIt(PAdd(src, -1))),
                          PAdd(src, -1), PAdd(dest, -1), position)

\* the loop `do { --dest; --src; construct(dest, move(*src)); } while(dest != last);`
\* the source pointer is left in X.it
RECURSIVE move_back_until(_, _, _, _)
move_back_until(X, src, dest, lst) ==
    IF PDiff(dest, lst) <= 0
    THEN Fault([X EXCEPT !.r = dest, !.it = PtrIt(src)], "runaway_loop")
    ELSE
    Bind([Y \in {construct_from(X, PAdd(dest, -1), MoveIt(PAdd(src, -1)))} |->
        IF PAdd(dest, -1) = lst
        THEN [Y EXCEPT !.r = PAdd(dest, -1), !.it = PtrIt(PAdd(src, -1))]
        ELSE move_back_until(Y, PAdd(src, -1), PAdd(dest, -1), lst)])

\* the source asserts position != last and sz > 0; that the moved elements
\* stay within the capacity is not asserted, and is recorded here as well
move_forward_n(X, i, position, sz) ==
    Bind([lst \in {iend(X, i)} |->
    Bind([Xa \in {IF position = lst THEN Fault(X, "assert_move_forward_n_position") ELSE X} |->
    Bind([Xc \in {IF ~(sz > 0) THEN Fault(Xa, "assert_move_forward_n_sz") ELSE Xa} |->
    Bind([Xb \in {IF many(X, i, sz) THEN Fault(Xc, "move_forward_n_over_capacity") ELSE Xc} |->
    Bind([src \in {lst} |->
    Bind([dest \in {PAdd(src, sz)} |->
    Bind([X0 \in {set_iend(Xb, i, dest)} |->
        IF value_has_trivial_destroy(X)
        THEN move_back_construct(X0, src, dest, position)
        ELSE IF PDiff(PAdd(position, sz), lst) < 0
             THEN Bind([Y \in {move_back_until(X0, src, dest, lst)} |->
                      move_back_assign(Y, Y.it.p, Y.r, position)])
             ELSE [move_back_construct(X0, src, dest, position) EXCEPT !.r = lst]])])])])])])])

make_gap_1(X, i, position) ==
    IF full(X, i)
    THEN Bind([oldCapacity \in {capacity(X, i)} |->
         Bind([newCapacity \in {next_capacity(capacity(X, i))} |->
         Bind([X1 \in {allocate(X, i, newCapacity)} |->
         Bind([newData \in {X1.r} |->
         Bind([X2 \in {move_construct_from_range(X1, newData, PtrIt(ibegin(X1, i)), PtrIt(position))} |->
         Bind([newPosition \in {X2.r} |->
         Bind([X3 \in {move_construct_from_range(X2, PAdd(newPosition, 1), PtrIt(position), PtrIt(iend(X2, i)))} |->
         Bind([newSize \in {X3.r} |->
         Bind([X4 \in {destroy(X3, ibegin(X3, i), iend(X3, i))} |->
         Bind([X5 \in {deallocate(X4, i, m_data(X4, i), oldCapacity)} |->
         Bind([X6 \in {reset_dsn(X5, i, newData, newSize, newCapacity)} |->
             [X6 EXCEPT !.r = newPosition]])])])])])])])])])])])
    ELSE [move_forward_1(X, i, position) EXCEPT !.r = position]

\* the pair it returns is left in X.r (first) and X.r2 (second)
make_gap_n(X, i, position, sz) ==
    Bind([oldCapacity \in {capacity(X, i)} |->
        IF (size(X, i) + sz) > oldCapacity
        THEN Bind([newCapacity \in {next_capacity(size(X, i) + sz)} |->
             Bind([X1 \in {allocate(X, i, newCapacity)} |->
             Bind([newData \in {X1.r} |->
             Bind([X2 \in {move_construct_from_range(X1, newData, PtrIt(ibegin(X1, i)), PtrIt(position))} |->
             Bind([newPosition \in {X2.r} |->
             Bind([X3 \in {move_construct_from_range(X2, PAdd(newPosition, sz), PtrIt(position), PtrIt(iend(X2, i)))} |->
             Bind([newSize \in {X3.r} |->
             Bind([X4 \in {destroy(X3, ibegin(X3, i), iend(X3, i))} |->
             Bind([X5 \in {deallocate(X4, i, m_data(X4, i), oldCapacity)} |->
             Bind([X6 \in {reset_dsn(X5, i, newData, newSize, newCapacity)} |->
                 [X6 EXCEPT !.r = newPosition, !.r2 = newPosition]])])])])])])])])])])
        ELSE Bind([Y \in {move_forward_n(X, i, position, sz)} |->
                 [Y EXCEPT !.r = position, !.r2 = Y.r]])])

\* ------------------------------------------------------- insert_horrible
\* `do { nextCapacity = next_capacity(nextCapacity); } while(nextCapacity < currentSize);`
RECURSIVE horrible_next_capacity(_, _)
horrible_next_capacity(nextCapacity, currentSize) ==
    Bind([nc \in {next_capacity(nextCapacity)} |->
        IF nc < currentSize THEN horrible_next_capacity(nc, currentSize) ELSE nc])

\* `while(currentSize > currentCapacity) currentCapacity = next_capacity(currentCapacity);`
RECURSIVE horrible_final_capacity(_, _)
horrible_final_capacity(currentSize, currentCapacity) ==
    IF currentSize > currentCapacity
    THEN horrible_final_capacity(currentSize, next_capacity(currentCapacity))
    ELSE currentCapacity

\* The allocation loop: one temporary array per round, filled from its
\* insert index to its end and then from its beginning to the insert
\* index.  The chain of temp_array_blocks is the list X.t.arrays.
RECURSIVE horrible_fill(_, _, _, _, _, _, _, _)
horrible_fill(X, i, arrays, currentSize, currentCapacity, currentIndex, first, lst) ==
    Bind([nextCapacity \in {horrible_next_capacity(currentCapacity, currentSize)} |->
    Bind([X1 \in {allocate(X, i, nextCapacity)} |->
    Bind([arrayBegin \in {X1.r} |->
    Bind([arrayEnd \in {PAdd(arrayBegin, nextCapacity)} |->
    Bind([arrayMid \in {PAdd(arrayBegin, currentIndex)} |->
    Bind([arrays1 \in {Append(arrays, [begin |-> arrayBegin, end |-> arrayEnd])
} |->  \* firstLoop
    Bind([P1 \in {checked_construct_loop(X1, arrayMid, arrayEnd, first, lst, FALSE)} |->
    Bind([fin1 \in {ItEq(P1.it, lst)} |->
    Bind([cnt1 \in {PDiff(P1.r, arrayMid)
} |->  \* second round of the while(true), when not finished
    Bind([P2 \in {checked_construct_loop(P1, arrayBegin, arrayMid, P1.it, lst, FALSE)} |->
    Bind([fin2 \in {ItEq(P2.it, lst)} |->
    Bind([cnt2 \in {PDiff(P2.r, arrayBegin)} |->
    Bind([P \in {IF fin1 THEN P1 ELSE P2} |->
    Bind([fin \in {IF fin1 THEN TRUE ELSE fin2} |->
    Bind([size1 \in {IF fin1 THEN currentSize + cnt1 ELSE currentSize + cnt1 + cnt2} |->
    Bind([index1 \in {IF fin1 THEN currentIndex + cnt1 ELSE currentIndex + cnt1 + cnt2} |->
        IF fin
        THEN [P EXCEPT !.t = [arrays |-> arrays1, currentSize |-> size1,
                              currentCapacity |-> nextCapacity, lastInserted |-> P.r]]
        ELSE horrible_fill(P, i, arrays1, size1, nextCapacity, index1, P.it, lst)])])])])])])])])])])])])])])])])

\* `for(each block) for(each array but the last) { move both parts; destroy; deallocate; }`
\* the combine position is left in X.r
RECURSIVE horrible_combine(_, _, _, _, _, _)
horrible_combine(X, i, arrays, k, combineIndex, combinePosition) ==
    IF k >= Len(arrays) THEN [X EXCEPT !.r = combinePosition, !.t = [combineIndex |-> combineIndex]]
    ELSE Bind([arrayBegin \in {arrays[k].begin} |->
         Bind([arrayEnd \in {arrays[k].end} |->
         Bind([arrayMid \in {PAdd(arrayBegin, combineIndex)} |->
         Bind([arrayCapacity \in {PDiff(arrayEnd, arrayBegin)} |->
         Bind([X1 \in {move_construct_from_range(X, combinePosition, PtrIt(arrayMid), PtrIt(arrayEnd))} |->
         Bind([X2 \in {move_construct_from_range(X1, X1.r, PtrIt(arrayBegin), PtrIt(arrayMid))} |->
         Bind([X3 \in {destroy(X2, arrayBegin, arrayEnd)} |->
         Bind([X4 \in {deallocate(X3, i, arrayBegin, arrayCapacity)} |->
             horrible_combine(X4, i, arrays, k + 1, combineIndex + arrayCapacity, X2.r)])])])])])])])])

\* the horrible_insert_helper it returns is left in X.hr
insert_horrible(X, i, index, oldSize, oldCapacity, first, lst) ==
    Bind([F \in {horrible_fill(X, i, <<>>, oldSize, oldCapacity, index, first, lst)} |->
    Bind([arrays \in {F.t.arrays} |->
    Bind([currentSize \in {F.t.currentSize} |->
    Bind([lastInserted \in {F.t.lastInserted} |->
    Bind([lastArrayBad \in {currentSize > F.t.currentCapacity} |->
    Bind([currentCapacity \in {horrible_final_capacity(currentSize, F.t.currentCapacity)} |->
    Bind([lastArray \in {arrays[Len(arrays)]} |->
    Bind([A \in {IF lastArrayBad THEN allocate(F, i, currentCapacity) ELSE [F EXCEPT !.r = lastArray.begin]} |->
    Bind([finalArray \in {A.r} |->
    Bind([finalArrayEnd \in {PAdd(finalArray, currentCapacity)} |->
    Bind([C \in {horrible_combine(A, i, arrays, 1, index, PAdd(finalArray, index))} |->
    Bind([combineIndex \in {C.t.combineIndex} |->
    Bind([Z \in {IF lastArrayBad
                 THEN Bind([arrayBegin \in {lastArray.begin} |->
                      Bind([arrayEnd \in {lastArray.end} |->
                      Bind([arrayMid \in {PAdd(arrayBegin, combineIndex)} |->
                      Bind([arrayCapacity \in {PDiff(arrayEnd, arrayBegin)} |->
                          IF PDiff(lastInserted, arrayMid) <= 0
                          THEN Bind([Y1 \in {move_construct_from_range(C, C.r, PtrIt(arrayMid), PtrIt(arrayEnd))} |->
                               Bind([Y2 \in {move_construct_from_range(Y1, Y1.r, PtrIt(arrayBegin), PtrIt(lastInserted))} |->
                               Bind([Y3 \in {destroy(Y2, arrayMid, arrayEnd)} |->
                               Bind([Y4 \in {destroy(Y3, arrayBegin, lastInserted)} |->
                               Bind([Y5 \in {deallocate(Y4, i, arrayBegin, arrayCapacity)} |->
                                   [Y5 EXCEPT !.r = Y2.r]])])])])])
                          ELSE Bind([Y1 \in {move_construct_from_range(C, C.r, PtrIt(arrayMid), PtrIt(lastInserted))} |->
                               Bind([Y2 \in {destroy(Y1, arrayMid, lastInserted)} |->
                               Bind([Y3 \in {deallocate(Y2, i, arrayBegin, arrayCapacity)} |->
                                   [Y3 EXCEPT !.r = Y1.r]])])])])])])])
                 ELSE [C EXCEPT !.r = lastInserted]} |->
        [Z EXCEPT !.hr = [newData |-> finalArray, newSize |-> Z.r, newCapacity |-> finalArrayEnd],
                  !.it = F.it]])])])])])])])])])])])])])

\* ------------------------------------------------------ iterator traits
iterator_category(it) ==
    IF it.k = "ptr" THEN <<"random_access_iterator_tag">>
    ELSE IF it.k = "fwd" THEN <<"forward_iterator_tag">>
    ELSE <<"input_iterator_tag">>

\* the struct, whose member `type` is the category
iterator_category_or_void(it) == <<"iterator_category_or_void">> \o iterator_category(it)

\* std::is_same<std::input_iterator_tag, iterator_category_or_void<Itr>>
is_exactly_input_iterator(it) == <<"input_iterator_tag">> = iterator_category_or_void(it)

\* overload resolution on the iterator tag
IsInputTag(it) == iterator_category(it) = <<"input_iterator_tag">>

\* --------------------------------------------- vector: erase helpers, clear
truncate_internal(X, i, lst) ==
    Bind([X1 \in {destroy(X, lst, iend(X, i))} |->
        [set_iend(X1, i, lst) EXCEPT !.r = lst]])

\* mutant of erase_internal: the tail is not moved down
erase_internal_no_shift(X, i, first, lst) ==
    [truncate_internal(X, i, PAdd(iend(X, i), 0 - PDiff(lst, first))) EXCEPT !.r = first]

erase_internal(X, i, first, lst) ==
    Bind([X1 \in {move_assign_from_range(X, first, PtrIt(lst), PtrIt(iend(X, i)))} |->
        [truncate_internal(X1, i, X1.r) EXCEPT !.r = first]])

clear(X, i) == truncate_internal(X, i, m_data(X, i))

reserve(X, i, neededSize) == reallocate_to(X, i, neededSize)

\* ------------------------------------------------------ vector_base ctors
\* mutant of vector_base(sz): allocates even for sz = 0
vector_base_sz_unchecked(X, i, sz) ==
    Bind([X1 \in {allocate(X, i, sz)} |->
        reset_ds_n(X1, i, X1.r, sz)])

\* vector_base(sz)
vector_base_sz(X, i, sz) ==
    IF sz > 0
    THEN Bind([X1 \in {allocate(X, i, sz)} |->
             reset_ds_n(X1, i, X1.r, sz)])
    ELSE reset(X, i)

\* vector_base(const vector_base& other)
vector_base_copy(X, i, o) ==
    Bind([X0 \in {[X EXCEPT !.v[i].al = X.v[o].al]} |->
    Bind([otherSize \in {size(X0, o)} |->
        IF otherSize # 0
        THEN Bind([X1 \in {allocate(X0, i, otherSize)} |->
             Bind([newData \in {X1.r} |->
             Bind([X2 \in {copy_construct_from_range(X1, newData, PtrIt(ibegin(X1, o)), PtrIt(iend(X1, o)))} |->
                 reset_dsc(X2, i, newData, X2.r, X2.r)])])])
        ELSE reset(X0, i)])])

\* mutant of vector_base(vector_base&& rv): rv is not reset
vector_base_move_keep(X, i, o) ==
    [X EXCEPT !.v[i].data = X.v[o].data, !.v[i].size = X.v[o].size,
              !.v[i].cap = X.v[o].cap, !.v[i].al = X.v[o].al]

\* vector_base(vector_base&& rv)
vector_base_move(X, i, o) ==
    Bind([X0 \in {[X EXCEPT !.v[i].data = X.v[o].data, !.v[i].size = X.v[o].size,
                            !.v[i].cap = X.v[o].cap, !.v[i].al = X.v[o].al]} |->
        reset(X0, o)])

\* vector_base(vector_base&& rv, const Alloc& a, is_always_equal())
vector_base_move_alloc(X, i, o, a) ==
    Bind([X0 \in {[X EXCEPT !.v[i].al = a]} |->
        IF alloc_is_always_equal(X)
        THEN Bind([X1 \in {[X0 EXCEPT !.v[i].data = X.v[o].data, !.v[i].size = X.v[o].size,
                                      !.v[i].cap = X.v[o].cap]} |->
                 reset(X1, o)])
        ELSE IF empty(X0, o) THEN reset(X0, i)
        ELSE IF AllocEq(X, m_allocator(X0, i), m_allocator(X0, o))
             THEN Bind([X1 \in {[X0 EXCEPT !.v[i].data = X.v[o].data, !.v[i].size = X.v[o].size,
                                           !.v[i].cap = X.v[o].cap]} |->
                      reset(X1, o)])
        ELSE Bind([X1 \in {allocate(X0, i, size(X0, o))} |->
             Bind([X2 \in {[X1 EXCEPT !.v[i].data = X1.r]} |->
             Bind([X3 \in {move_construct_from_range(X2, m_data(X2, i), PtrIt(ibegin(X2, o)), PtrIt(iend(X2, o)))} |->
             Bind([X4 \in {[X3 EXCEPT !.v[i].size = X3.r, !.v[i].cap = X3.r]} |->
             Bind([X5 \in {destroy(X4, ibegin(X4, o), iend(X4, o))} |->
                 set_iend(X5, o, ibegin(X5, o))])])])])])])

\* ---------------------------------------------------- construction helpers
do_construct(X, i, initialSize) ==
    IF initialSize > 0
    THEN Bind([X1 \in {construct_n(X, m_data(X, i), initialSize)} |->
             set_iend(X1, i, X1.r)])
    ELSE X

do_construct_val(X, i, initialSize, val) ==
    IF initialSize > 0
    THEN Bind([X1 \in {construct_n_val(X, m_data(X, i), initialSize, val)} |->
             set_iend(X1, i, X1.r)])
    ELSE X

\* the capacity is left in X.r
select_capacity_from_range(X, first, lst) ==
    IF is_exactly_input_iterator(first)
    THEN [X EXCEPT !.r = second_capacity_increment]
    ELSE distance(X, first, lst)

do_construct_range_input(X, i, first, lst) ==
    Bind([X1 \in {checked_copy_construct_range(X, ubegin(X, i), uend(X, i), first, lst)} |->
    Bind([X2 \in {set_iend(X1, i, X1.r)} |->
    Bind([first1 \in {X1.it} |->
        IF ItEq(first1, lst) THEN X2
        ELSE Bind([numCap \in {capacity(X2, i)} |->
             Bind([H \in {insert_horrible(X2, i, numCap, numCap, numCap, first1, lst)} |->
             Bind([X3 \in {move_construct_range_n(H, H.hr.newData, PtrIt(ibegin(H, i)), numCap)} |->
             Bind([X4 \in {destroy(X3, ibegin(X3, i), iend(X3, i))} |->
             Bind([X5 \in {deallocate(X4, i, m_data(X4, i), numCap)} |->
                 reset_dsc(X5, i, H.hr.newData, H.hr.newSize, H.hr.newCapacity)])])])])])])])])

do_construct_range_forward(X, i, first, lst) ==
    Bind([X1 \in {copy_construct_range_n(X, ubegin(X, i), first, available(X, i))} |->
    Bind([X2 \in {set_iend(X1, i, X1.r)} |->
        IF ~ItEq(X1.it, lst) THEN Fault(X2, "assert_do_construct_range") ELSE X2])])

do_construct_range(X, i, first, lst) ==
    IF IsInputTag(first) THEN do_construct_range_input(X, i, first, lst)
    ELSE do_construct_range_forward(X, i, first, lst)

\* --------------------------------------------------- vector constructors
\* vector()
vector_default(X, i) == reset(X, i)

\* vector(capacity_tag_t cap)
vector_capacity(X, i, cp) == vector_base_sz(X, i, cp)

\* vector(size_type initialSize)
vector_size(X, i, initialSize) == do_construct(vector_base_sz(X, i, initialSize), i, initialSize)

\* vector(size_type initialSize, const_reference value)
vector_fill(X, i, initialSize, val) ==
    do_construct_val(vector_base_sz(X, i, initialSize), i, initialSize, val)

\* vector(InputIterator first, InputIterator last)
vector_range(X, i, first, lst) ==
    Bind([X1 \in {select_capacity_from_range(X, first, lst)} |->
        do_construct_range(vector_base_sz(X1, i, X1.r), i, first, lst)])

\* vector(const vector& other)
vector_copy(X, i, o) == vector_base_copy(X, i, o)

\* vector(vector&& other)
vector_move(X, i, o) == vector_base_move(X, i, o)

\* vector(vector&& other, const Alloc& a)
vector_move_alloc(X, i, o, a) == vector_base_move_alloc(X, i, o, a)

\* ~vector()
vector_destroy(X, i) ==
    IF m_data(X, i) # NULL
    THEN Bind([X1 \in {clear(X, i)} |->
         Bind([X2 \in {deallocate_pp(X1, i, m_data(X1, i), m_capacity(X1, i))} |->
             reset(X2, i)])])
    ELSE X

\* ------------------------------------------------------ insert operations
\* An argument `args` is a reference: ValRef(x) or PtrRef(p).
\* construct(p): default construction
construct_default(X, p) ==
    IF value_has_trivial_construct(X) THEN X ELSE construct(X, p, DefaultValue)

\* mutant of emplace_internal: the temporary is made after the gap
emplace_internal_late_copy(X, i, position, args) ==
    IF use_simple_insert(X) \/ ~full(X, i)
    THEN Bind([X0 \in {make_gap_1(X, i, position)} |->
         Bind([newPosition \in {X0.r} |->
         Bind([temp \in {ItVal(X0, args)} |->
         Bind([X2 \in {ItRead(X0, args)} |->
         Bind([X3 \in {IF value_has_trivial_destroy(X) \/ newPosition # position
                       THEN construct(X2, newPosition, temp)
                       ELSE assign(X2, newPosition, temp)} |->
             [X3 EXCEPT !.r = newPosition]])])])])])
    ELSE Bind([newCapacity \in {next_capacity(capacity(X, i))} |->
         Bind([X1 \in {allocate(X, i, newCapacity)} |->
         Bind([newData \in {X1.r} |->
         Bind([newPosition \in {PAdd(newData, PDiff(position, ibegin(X1, i)))} |->
         Bind([X2 \in {construct_from(X1, newPosition, args)} |->
         Bind([X3 \in {move_construct_from_range(X2, newData, PtrIt(ibegin(X2, i)), PtrIt(position))} |->
         Bind([X4 \in {move_construct_from_range(X3, PAdd(newPosition, 1), PtrIt(position), PtrIt(iend(X3, i)))} |->
         Bind([newSize \in {X4.r} |->
         Bind([X5 \in {destroy(X4, ibegin(X4, i), iend(X4, i))} |->
         Bind([X6 \in {deallocate_pp(X5, i, m_data(X5, i), m_capacity(X5, i))} |->
             [reset_dsn(X6, i, newData, newSize, newCapacity) EXCEPT !.r = newPosition]])])])])])])])])])])

emplace_internal(X, i, position, args) ==
    IF use_simple_insert(X) \/ ~full(X, i)
    THEN Bind([temp \in {ItVal(X, args)} |->
         Bind([X1 \in {ItRead(X, args)} |->
         Bind([X2 \in {make_gap_1(X1, i, position)} |->
         Bind([newPosition \in {X2.r} |->
         Bind([X3 \in {IF value_has_trivial_destroy(X) \/ newPosition # position
                       THEN construct(X2, newPosition, temp)
                       ELSE assign(X2, newPosition, temp)} |->
             [X3 EXCEPT !.r = newPosition]])])])])])
    ELSE Bind([newCapacity \in {next_capacity(capacity(X, i))} |->
         Bind([X1 \in {allocate(X, i, newCapacity)} |->
         Bind([newData \in {X1.r} |->
         Bind([newPosition \in {PAdd(newData, PDiff(position, ibegin(X1, i)))} |->
         Bind([X2 \in {construct_from(X1, newPosition, args)} |->
         Bind([X3 \in {move_construct_from_range(X2, newData, PtrIt(ibegin(X2, i)), PtrIt(position))} |->
         Bind([X4 \in {move_construct_from_range(X3, PAdd(newPosition, 1), PtrIt(position), PtrIt(iend(X3, i)))} |->
         Bind([newSize \in {X4.r} |->
         Bind([X5 \in {destroy(X4, ibegin(X4, i), iend(X4, i))} |->
         Bind([X6 \in {deallocate_pp(X5, i, m_data(X5, i), m_capacity(X5, i))} |->
             [reset_dsn(X6, i, newData, newSize, newCapacity) EXCEPT !.r = newPosition]])])])])])])])])])])

emplace_back_internal(X, i, args) ==
    IF ~full(X, i)
    THEN Bind([position \in {iend(X, i)} |->
         Bind([X1 \in {construct_from(X, position, args)} |->
             [X1 EXCEPT !.v[i].size = PAdd(@, 1), !.r = position]])])
    ELSE IF use_simple_insert(X)
    THEN Bind([temp \in {ItVal(X, args)} |->
         Bind([X1 \in {reallocate(ItRead(X, args), i)} |->
         Bind([position \in {iend(X1, i)} |->
         Bind([X2 \in {construct(X1, position, temp)} |->
             [X2 EXCEPT !.v[i].size = PAdd(@, 1), !.r = position]])])])])
    ELSE Bind([newCapacity \in {next_capacity(capacity(X, i))} |->
         Bind([X1 \in {allocate(X, i, newCapacity)} |->
         Bind([newData \in {X1.r} |->
         Bind([newPosition \in {PAdd(newData, size(X1, i))} |->
         Bind([X2 \in {construct_from(X1, newPosition, args)} |->
         Bind([X3 \in {move_construct_from_range(X2, newData, PtrIt(ibegin(X2, i)), PtrIt(iend(X2, i)))} |->
         Bind([X4 \in {destroy(X3, ibegin(X3, i), iend(X3, i))} |->
         Bind([X5 \in {deallocate_pp(X4, i, m_data(X4, i), m_capacity(X4, i))} |->
             [reset_dsn(X5, i, newData, PAdd(newPosition, 1), newCapacity) EXCEPT !.r = newPosition]])])])])])])])])

\* the call `make_gap_n(position)` of the source is taken as make_gap_n(position, count)
emplace_n_internal(X, i, position, count, args) ==
    IF use_simple_insert(X) \/ few(X, i, count)
    THEN Bind([temp \in {ValRef(ItVal(X, args))} |->
         Bind([X1 \in {ItRead(X, args)} |->
         Bind([X2 \in {make_gap_n(X1, i, position, count)} |->
         Bind([ranges \in {[first |-> X2.r, second |-> X2.r2]} |->
         Bind([newPosition \in {PAdd(ranges.first, count)} |->
         Bind([X3 \in {IF value_has_trivial_destroy(X)
                       THEN construct_range_val(X2, ranges.first, newPosition, temp)
                       ELSE assign_range_val(construct_range_val(X2, ranges.first, ranges.second, temp),
                                             ranges.second, newPosition, temp)} |->
             [X3 EXCEPT !.r = ranges.first]])])])])])])
    ELSE Bind([newCapacity \in {best_capacity(X, i, size(X, i) + count)} |->
         Bind([X1 \in {allocate(X, i, newCapacity)} |->
         Bind([newData \in {X1.r} |->
         Bind([newPosition \in {PAdd(newData, PDiff(position, ibegin(X1, i)))} |->
         Bind([X2 \in {construct_from(X1, newPosition, args)} |->
         Bind([X3 \in {construct_n_val(X2, PAdd(newPosition, 1), Wrap(count - 1), PtrRef(newPosition))} |->
         Bind([lst \in {X3.r} |->
         Bind([X4 \in {move_construct_from_range(X3, newData, PtrIt(ibegin(X3, i)), PtrIt(position))} |->
         Bind([X5 \in {move_construct_from_range(X4, lst, PtrIt(position), PtrIt(iend(X4, i)))} |->
         Bind([newSize \in {X5.r} |->
         Bind([X6 \in {destroy(X5, ibegin(X5, i), iend(X5, i))} |->
         Bind([X7 \in {deallocate_pp(X6, i, m_data(X6, i), m_capacity(X6, i))} |->
             [reset_dsn(X7, i, newData, newSize, newCapacity) EXCEPT !.r = newPosition]])])])])])])])])])])])])

emplace_back_n_internal(X, i, count0, args) ==
    IF ~full(X, i)
    THEN Bind([X1 \in {emplace_back_internal(X, i, args)} |->
         Bind([count \in {Wrap(count0 - 1)} |->
         Bind([X2 \in {IF many(X1, i, count)
                       THEN reallocate_to(X1, i, best_capacity(X1, i, Wrap(size(X1, i) + count)))
                       ELSE X1} |->
         Bind([position \in {PAdd(iend(X2, i), -1)} |->
         Bind([X3 \in {construct_n_val(X2, iend(X2, i), count, PtrRef(position))} |->
             [set_iend(X3, i, X3.r) EXCEPT !.r = position]])])])])])
    ELSE IF use_simple_insert(X)
    THEN Bind([temp \in {ValRef(ItVal(X, args))} |->
         Bind([X1 \in {reallocate_to(ItRead(X, args), i, best_capacity(X, i, size(X, i) + count0))} |->
         Bind([position \in {iend(X1, i)} |->
         Bind([X2 \in {construct_n_val(X1, position, count0, temp)} |->
             [set_iend(X2, i, X2.r) EXCEPT !.r = position]])])])])
    ELSE Bind([newCapacity \in {best_capacity(X, i, size(X, i) + count0)} |->
         Bind([X1 \in {allocate(X, i, newCapacity)} |->
         Bind([newData \in {X1.r} |->
         Bind([newPosition \in {PAdd(newData, size(X1, i))} |->
         Bind([X2 \in {construct_from(X1, newPosition, args)} |->
         Bind([X3 \in {construct_n_val(X2, PAdd(newPosition, 1), Wrap(count0 - 1), PtrRef(newPosition))} |->
         Bind([newSize \in {X3.r} |->
         Bind([X4 \in {move_construct_from_range(X3, newData, PtrIt(ibegin(X3, i)), PtrIt(iend(X3, i)))} |->
         Bind([X5 \in {destroy(X4, ibegin(X4, i), iend(X4, i))} |->
         Bind([X6 \in {deallocate_pp(X5, i, m_data(X5, i), m_capacity(X5, i))} |->
             [reset_dsn(X6, i, newData, newSize, newCapacity) EXCEPT !.r = newPosition]])])])])])])])])])])

\* ------------------------------------------------------------ push / pop
\* push_back()
push_back_default(X, i) ==
    Bind([X1 \in {IF full(X, i) THEN reallocate(X, i) ELSE X} |->
    Bind([X2 \in {construct_default(X1, iend(X1, i))} |->
        [X2 EXCEPT !.v[i].size = PAdd(@, 1)]])])

\* push_back(const_reference val)
push_back(X, i, val) == emplace_back_internal(X, i, val)

pop_back(X, i) ==
    IF ~empty(X, i)
    THEN Bind([X1 \in {[X EXCEPT !.v[i].size = PAdd(@, -1)]} |->
             destroy_1(X1, iend(X1, i))])
    ELSE X

\* ------------------------------------------------------- insert / emplace
\* insert(pos, val)
insert(X, i, position, val) ==
    IF position = iend(X, i) THEN emplace_back_internal(X, i, val)
    ELSE emplace_internal(X, i, position, val)

\* insert(pos, count, val)
insert_n(X, i, position, count, val) ==
    IF position = iend(X, i) THEN emplace_back_n_internal(X, i, count, val)
    ELSE emplace_n_internal(X, i, position, count, val)

\* emplace_back()
emplace_back_default(X, i) ==
    Bind([X1 \in {IF full(X, i) THEN reallocate(X, i) ELSE X} |->
    Bind([result \in {iend(X1, i)} |->
    Bind([X2 \in {construct_default(X1, result)} |->
        [X2 EXCEPT !.v[i].size = PAdd(@, 1), !.r = result]])])])

\* emplace(pos)
emplace_default(X, i, position) ==
    IF position = iend(X, i)
    THEN Bind([X1 \in {emplace_back_default(X, i)} |->
             [X1 EXCEPT !.r = PAdd(iend(X1, i), -1)]])
    ELSE Bind([X1 \in {make_gap_1(X, i, position)} |->
         Bind([newPosition \in {X1.r} |->
         Bind([X2 \in {IF value_has_trivial_destroy(X) \/ position # newPosition
                       THEN construct_default(X1, newPosition)
                       ELSE assign(X1, newPosition, DefaultValue)} |->
             [X2 EXCEPT !.r = newPosition]])])])

\* emplace_back(args...)
emplace_back(X, i, args) == emplace_back_internal(X, i, args)

\* emplace(pos, args...)
emplace(X, i, position, args) ==
    IF position = iend(X, i) THEN emplace_back_internal(X, i, args)
    ELSE emplace_internal(X, i, position, args)

\* ------------------------------------------------------ erase, swap, take
\* erase(pos)
erase(X, i, position) == erase_internal(X, i, position, PAdd(position, 1))

\* mutant of erase(first, last): everything from first on is dropped
erase_range_drop_tail(X, i, first, lst) == truncate_internal(X, i, first)

\* erase(first, last)
erase_range(X, i, first, lst) ==
    IF first = lst THEN [X EXCEPT !.r = first]
    ELSE IF lst = iend(X, i) THEN truncate_internal(X, i, first)
    ELSE erase_internal(X, i, first, lst)

swap(X, i, o) ==
    Bind([X1 \in {[X EXCEPT !.v[i].data = X.v[o].data, !.v[o].data = X.v[i].data,
                            !.v[i].size = X.v[o].size, !.v[o].size = X.v[i].size,
                            !.v[i].cap = X.v[o].cap, !.v[o].cap = X.v[i].cap]} |->
        IF alloc_propagate_swap(X)
        THEN [X1 EXCEPT !.v[i].al = X.v[o].al, !.v[o].al = X.v[i].al]
        ELSE X1])

\* the value returned is left in X.r
take_back(X, i) ==
    IF empty(X, i) THEN [X EXCEPT !.r = DefaultValue]
    ELSE Bind([X1 \in {[X EXCEPT !.v[i].size = PAdd(@, -1)]} |->
         Bind([result \in {Slot(X1, iend(X1, i))} |->
         Bind([X2 \in {ItRead(X1, MoveIt(iend(X1, i)))} |->
             [destroy_1(X2, iend(X2, i)) EXCEPT !.r = result]])])])

take(X, i, position) ==
    Bind([result \in {Slot(X, position)} |->
    Bind([X1 \in {ItRead(X, MoveIt(position))} |->
    Bind([X2 \in {move_assign_from_range(X1, position, PtrIt(PAdd(position, 1)), PtrIt(iend(X1, i)))} |->
    Bind([X3 \in {[X2 EXCEPT !.v[i].size = PAdd(@, -1)]} |->
        [destroy_1(X3, iend(X3, i)) EXCEPT !.r = result]])])])])

\* `for(pointer i = first; i != last; ++i, ++out) { *out = std::move(*i); }`
RECURSIVE take_out_loop(_, _, _)
take_out_loop(X, first, lst) ==
    IF first = lst THEN X
    ELSE IF PDiff(lst, first) < 0 THEN Fault(X, "bad_range")
    ELSE take_out_loop([ItRead(X, MoveIt(first)) EXCEPT !.out = Append(@, Slot(X, first))],
                       PAdd(first, 1), lst)

\* take(first, last, out)
take_range(X, i, first, lst) ==
    Bind([X1 \in {take_out_loop(X, first, lst)} |->
        IF lst = iend(X1, i) THEN truncate_internal(X1, i, first)
        ELSE erase_internal(X1, i, first, lst)])

\* --------------------------------------------------- insert-at-end helpers
append_range_input(X, i, first, lst) ==
    Bind([X0 \in {IF m_data(X, i) = NULL
                  THEN Bind([A \in {allocate(X, i, 16)} |->
                           reset_ds_n(A, i, A.r, 16)])
                  ELSE X} |->
    Bind([oldSize \in {size(X0, i)} |->
    Bind([X1 \in {IF ~full(X0, i)
                  THEN Bind([C \in {checked_copy_construct_range(X0, ubegin(X0, i), uend(X0, i), first, lst)} |->
                           set_iend(C, i, C.r)])
                  ELSE [X0 EXCEPT !.it = first]} |->
    Bind([first1 \in {X1.it} |->
    Bind([X2 \in {IF ~ItEq(first1, lst)
                  THEN Bind([oldCapacity \in {capacity(X1, i)} |->
                       Bind([H \in {insert_horrible(X1, i, oldCapacity, oldCapacity, oldCapacity, first1, lst)} |->
                       Bind([Y1 \in {move_construct_range_n(H, H.hr.newData, PtrIt(ibegin(H, i)), oldCapacity)} |->
                       Bind([Y2 \in {destroy(Y1, ibegin(Y1, i), iend(Y1, i))} |->
                       Bind([Y3 \in {deallocate(Y2, i, m_data(Y2, i), oldCapacity)} |->
                           reset_dsc(Y3, i, H.hr.newData, H.hr.newSize, H.hr.newCapacity)])])])])])
                  ELSE X1} |->
        [X2 EXCEPT !.r = PAdd(ibegin(X2, i), oldSize)]])])])])])

append_range_forward(X, i, first, lst) ==
    Bind([D \in {distance(X, first, lst)} |->
    Bind([count \in {D.r} |->
    Bind([X1 \in {reserve(D, i, size(D, i) + count)} |->
    Bind([oldEnd \in {iend(X1, i)} |->
    Bind([X2 \in {copy_construct_range_n(X1, oldEnd, first, count)} |->
        [set_iend(X2, i, X2.r) EXCEPT !.r = oldEnd]])])])])])

append_range(X, i, first, lst) ==
    IF IsInputTag(first) THEN append_range_input(X, i, first, lst)
    ELSE append_range_forward(X, i, first, lst)

append_defaults(X, i, sz) ==
    Bind([X1 \in {reserve(X, i, size(X, i) + sz)} |->
    Bind([oldEnd \in {iend(X1, i)} |->
    Bind([X2 \in {construct_n(X1, oldEnd, sz)} |->
        [set_iend(X2, i, X2.r) EXCEPT !.r = oldEnd]])])])

\* ------------------------------------------------------- insert dispatches
\* mutant of insert_range(forward_iterator_tag): the position is ignored
\* and the range is appended
insert_range_forward_appends(X, i, position, first, lst) == append_range_forward(X, i, first, lst)

insert_range_forward(X, i, position, first, lst) ==
    Bind([D \in {distance(X, first, lst)} |->
    Bind([count \in {D.r} |->
        IF ~many(D, i, count)
        THEN Bind([X1 \in {move_forward_n(D, i, position, count)} |->
             Bind([ufirst \in {X1.r} |->
             Bind([X2 \in {IF value_has_trivial_destroy(X)
                           THEN copy_construct_range_n(X1, position, first, count)
                           ELSE Bind([ulast \in {PAdd(position, count)} |->
                                Bind([Y \in {copy_assign_range(X1, position, ufirst, first)} |->
                                    copy_construct_range(Y, ufirst, ulast, Y.it)])])} |->
                 [X2 EXCEPT !.r = ufirst]])])])
        ELSE Bind([oldCapacity \in {capacity(D, i)} |->
             Bind([newCapacity \in {best_capacity(D, i, size(D, i) + count)} |->
             Bind([X1 \in {allocate(D, i, newCapacity)} |->
             Bind([newData \in {X1.r} |->
             Bind([X2 \in {move_construct_from_range(X1, newData, PtrIt(ibegin(X1, i)), PtrIt(position))} |->
             Bind([newPosition \in {X2.r} |->
             Bind([X3 \in {move_construct_from_range(X2, newPosition, first, lst)} |->
             Bind([insertedEnd \in {X3.r} |->
             Bind([X4 \in {move_construct_from_range(X3, insertedEnd, PtrIt(position), PtrIt(iend(X3, i)))} |->
             Bind([newSize \in {X4.r} |->
             Bind([X5 \in {destroy(X4, ibegin(X4, i), iend(X4, i))} |->
             Bind([X6 \in {deallocate(X5, i, m_data(X5, i), oldCapacity)} |->
                 [reset_dsn(X6, i, newData, newSize, newCapacity) EXCEPT !.r = insertedEnd]])])])])])])])])])])])])])])

\* the part of insert_range(input_iterator_tag) after the `if(!full())`
\* block; oldRanges is a sequence of four [first, second] pairs
insert_range_horrible(X, i, position, oldRanges, suffixSize, first, lst) ==
    Bind([oldIndex \in {PDiff(position, ibegin(X, i))} |->
    Bind([newIndex \in {PDiff(oldRanges[1].second, oldRanges[1].first)
                        + PDiff(oldRanges[2].second, oldRanges[2].first)
                        + PDiff(oldRanges[3].second, oldRanges[3].first)} |->
    Bind([H \in {insert_horrible(X, i, newIndex, newIndex + suffixSize, capacity(X, i), first, lst)} |->
    Bind([R1 \in {move_construct_from_range(H, H.hr.newData, PtrIt(oldRanges[1].first), PtrIt(oldRanges[1].second))} |->
    Bind([R2 \in {move_construct_from_range(R1, R1.r, PtrIt(oldRanges[2].first), PtrIt(oldRanges[2].second))} |->
    Bind([R3 \in {move_construct_from_range(R2, R2.r, PtrIt(oldRanges[3].first), PtrIt(oldRanges[3].second))} |->
    Bind([R4 \in {move_construct_from_range(R3, H.hr.newSize, PtrIt(oldRanges[4].first), PtrIt(oldRanges[4].second))} |->
    Bind([newNewSize \in {R4.r} |->
    Bind([D1 \in {destroy(R4, oldRanges[1].first, oldRanges[1].second)} |->
    Bind([D2 \in {destroy(D1, oldRanges[2].first, oldRanges[2].second)} |->
    Bind([D3 \in {destroy(D2, oldRanges[3].first, oldRanges[3].second)} |->
    Bind([D4 \in {destroy(D3, oldRanges[4].first, oldRanges[4].second)} |->
    Bind([E1 \in {deallocate_pp(D4, i, oldRanges[2].first, oldRanges[2].second)} |->
    Bind([E2 \in {deallocate_pp(E1, i, ibegin(E1, i), uend(E1, i))} |->
    Bind([Z \in {reset_dsc(E2, i, H.hr.newData, newNewSize, H.hr.newCapacity)} |->
        [Z EXCEPT !.r = PAdd(ibegin(Z, i), oldIndex)]])])])])])])])])])])])])])])])

\* mutant of insert_range(input_iterator_tag): the position is ignored and
\* the range is appended
insert_range_input_appends(X, i, position, first, lst) == append_range_input(X, i, first, lst)

\* `remainder()` of the source is taken as available()
insert_range_input(X, i, position, first, lst) ==
    IF ItEq(first, lst) THEN [X EXCEPT !.r = position]
    ELSE
    Bind([nullRange \in {[first |-> NULL, second |-> NULL]} |->
    Bind([oldRanges \in {<< [first |-> ibegin(X, i), second |-> position], nullRange, nullRange,
                            [first |-> position, second |-> iend(X, i)] >>} |->
    Bind([suffixSize \in {PDiff(iend(X, i), position)} |->
    Bind([remainderSize \in {available(X, i)} |->
    Bind([suffixSmaller \in {suffixSize < remainderSize} |->
        IF full(X, i)
        THEN insert_range_horrible(X, i, position, oldRanges, suffixSize, first, lst)
        ELSE
        Bind([tempLen \in {IF suffixSmaller THEN suffixSize ELSE remainderSize} |->
        Bind([A \in {allocate(X, i, tempLen)} |->
        Bind([tempData \in {A.r} |->
        Bind([tempCapacity \in {PAdd(tempData, tempLen)} |->
        Bind([T \in {checked_copy_construct_range(A, tempData, tempCapacity, first, lst)} |->
        Bind([tempSize \in {T.r} |->
        Bind([first1 \in {T.it} |->
            IF ItEq(first1, lst)
            THEN Bind([Y1 \in {insert_range_forward(T, i, position, MoveIt(tempData), MoveIt(tempSize))} |->
                 Bind([Y2 \in {destroy(Y1, tempData, tempSize)} |->
                 Bind([Y3 \in {deallocate_pp(Y2, i, tempData, tempCapacity)} |->
                     [Y3 EXCEPT !.r = position]])])])
            ELSE
            Bind([ranges1 \in {[oldRanges EXCEPT ![2] = [first |-> tempData, second |-> tempSize]]} |->
                IF ~suffixSmaller
                THEN insert_range_horrible(T, i, position, ranges1, suffixSize, first1, lst)
                ELSE
                Bind([F \in {checked_copy_construct_range(T, ubegin(T, i), PAdd(uend(T, i), -suffixSize), first1, lst)} |->
                Bind([fallbackEnd \in {F.r} |->
                Bind([first2 \in {F.it} |->
                    IF ItEq(first2, lst)
                    THEN Bind([Y1 \in {move_construct_range_n(F, fallbackEnd, PtrIt(position), suffixSize)} |->
                         Bind([Y2 \in {set_iend(Y1, i, Y1.r)} |->
                         Bind([Y3 \in {move_construct_range_n(Y2, position, PtrIt(tempData), suffixSize)} |->
                         Bind([Y4 \in {destroy(Y3, tempData, tempSize)} |->
                         Bind([Y5 \in {deallocate_pp(Y4, i, tempData, tempCapacity)} |->
                             [Y5 EXCEPT !.r = position]])])])])])
                    ELSE Bind([ranges2 \in {[ranges1 EXCEPT ![3] = [first |-> ubegin(F, i), second |-> fallbackEnd]]} |->
                             insert_range_horrible(F, i, position, ranges2, suffixSize, first2, lst)])])])])])])])])])])])])])])])])])

\* the dispatcher of the source drops `position`; it is passed on here
insert_range(X, i, position, first, lst) ==
    IF IsInputTag(first) THEN insert_range_input(X, i, position, first, lst)
    ELSE insert_range_forward(X, i, position, first, lst)

\* insert(pos, first, last)
insert_it(X, i, position, first, lst) ==
    IF position = iend(X, i) THEN append_range(X, i, first, lst)
    ELSE Bind([oldSize \in {size(X, i)} |->
         Bind([X1 \in {insert_range(X, i, position, first, lst)} |->
         Bind([insertedEnd \in {X1.r} |->
         Bind([insertedCount \in {size(X1, i) - oldSize} |->
             [X1 EXCEPT !.r = PAdd(insertedEnd, -insertedCount)]])])])])

\* ---------------------------------------------------------------- assign
do_assign_input(X, i, first, lst) ==
    IF value_has_trivial_destroy(X)
    THEN append_range(clear(X, i), i, first, lst)
    ELSE Bind([X1 \in {checked_copy_assign_range(X, ibegin(X, i), iend(X, i), first, lst)} |->
         Bind([position \in {X1.r} |->
             IF ItEq(X1.it, lst) THEN truncate_internal(X1, i, position)
             ELSE append_range(X1, i, X1.it, lst)])])

do_assign_forward(X, i, first, lst) ==
    Bind([D \in {distance(X, first, lst)} |->
    Bind([newSize \in {D.r} |->
        IF value_has_trivial_destroy(X) \/ newSize > capacity(D, i)
        THEN Bind([X1 \in {reserve(clear(D, i), i, newSize)} |->
             Bind([X2 \in {copy_construct_from_range(X1, iend(X1, i), first, lst)} |->
                 set_iend(X2, i, X2.r)])])
        ELSE Bind([X1 \in {checked_copy_assign_range(D, ibegin(D, i), iend(D, i), first, lst)} |->
             Bind([position \in {X1.r} |->
                 IF ItEq(X1.it, lst) THEN truncate_internal(X1, i, position)
                 ELSE Bind([X2 \in {copy_construct_from_range(X1, iend(X1, i), X1.it, lst)} |->
                          set_iend(X2, i, X2.r)])])])])])

do_assign(X, i, first, lst) ==
    IF IsInputTag(first) THEN do_assign_input(X, i, first, lst)
    ELSE do_assign_forward(X, i, first, lst)

\* assign(first, last)
assign_it(X, i, first, lst) == do_assign(X, i, first, lst)

\* assign(newSize, val)
assign_n_value(X, i, newSize, val) ==
    IF newSize = 0 THEN clear(X, i)
    ELSE IF value_has_trivial_destroy(X) \/ newSize > capacity(X, i)
    THEN Bind([X1 \in {reserve(clear(X, i), i, newSize)} |->
         Bind([X2 \in {construct_n_val(X1, m_data(X1, i), newSize, val)} |->
             set_iend(X2, i, X2.r)])])
    ELSE Bind([newEnd \in {PAdd(m_data(X, i), newSize)} |->
         Bind([sizeContained \in {PDiff(newEnd, iend(X, i)) <= 0} |->
         Bind([X1 \in {assign_range_val(X, ibegin(X, i), IF sizeContained THEN newEnd ELSE iend(X, i), val)} |->
         Bind([position \in {X1.r} |->
             IF sizeContained THEN truncate_internal(X1, i, position)
             ELSE set_iend(construct_range_val(X1, iend(X1, i), newEnd, val), i, newEnd)])])])])

\* operator=(const vector& rhs); i and o are distinct objects
copy_assign(X, i, o) ==
    Bind([X1 \in {IF alloc_propagate_copy(X)
                  THEN Bind([Y \in {IF ~alloc_is_always_equal(X) /\ m_allocator(X, i) # m_allocator(X, o)
                                        /\ m_data(X, i) # NULL
                                    THEN Bind([C \in {clear(X, i)} |->
                                             reset(deallocate_pp(C, i, m_data(C, i), m_capacity(C, i)), i)])
                                    ELSE X} |->
                           [Y EXCEPT !.v[i].al = X.v[o].al]])
                  ELSE X} |->
        IF empty(X1, i)
        THEN IF ~empty(X1, o)
             THEN Bind([X2 \in {reserve(X1, i, size(X1, o))} |->
                  Bind([X3 \in {copy_construct_from_range(X2, iend(X2, i), PtrIt(ibegin(X2, o)), PtrIt(iend(X2, o)))} |->
                      set_iend(X3, i, X3.r)])])
             ELSE X1
        ELSE IF empty(X1, o) THEN clear(X1, i)
        ELSE assign_it(X1, i, PtrIt(ibegin(X1, o)), PtrIt(iend(X1, o)))])

\* std::swap of the three cursors
swap_cursors(X, i, o) ==
    [X EXCEPT !.v[i].data = X.v[o].data, !.v[o].data = X.v[i].data,
              !.v[i].size = X.v[o].size, !.v[o].size = X.v[i].size,
              !.v[i].cap = X.v[o].cap, !.v[o].cap = X.v[i].cap]

\* mutant of do_move_assign: the destination is not cleared first
do_move_assign_no_clear(X, i, o) ==
    IF alloc_propagate_move(X) = FALSE
    THEN Bind([X1 \in {IF alloc_is_always_equal(X) \/ m_allocator(X, i) = m_allocator(X, o)
                       THEN swap_cursors(X, i, o)
                       ELSE assign_it(X, i, MoveIt(ibegin(X, o)), MoveIt(iend(X, o)))} |->
             clear(X1, o)])
    ELSE Bind([X1 \in {X} |->
             IF m_data(X1, i) # NULL
             THEN IF alloc_is_always_equal(X)
                  THEN swap_cursors([X1 EXCEPT !.v[i].al = X1.v[o].al], i, o)
                  ELSE Bind([newAlloc \in {m_allocator(X1, o)} |->
                       Bind([X2 \in {IF m_allocator(X1, i) = m_allocator(X1, o)
                                     THEN swap_cursors(X1, i, o)
                                     ELSE Bind([Y1 \in {deallocate_pp(X1, i, m_data(X1, i), m_capacity(X1, i))} |->
                                          Bind([Y2 \in {reset_dsc(Y1, i, m_data(Y1, o), m_size(Y1, o), m_capacity(Y1, o))} |->
                                              reset(Y2, o)])])} |->
                           [X2 EXCEPT !.v[i].al = newAlloc]])])
             ELSE Bind([X2 \in {[X1 EXCEPT !.v[i].al = X1.v[o].al]} |->
                  Bind([X3 \in {reset_dsc(X2, i, m_data(X2, o), m_size(X2, o), m_capacity(X2, o))} |->
                      reset(X3, o)])])])

do_move_assign(X, i, o) ==
    IF alloc_propagate_move(X) = FALSE
    THEN Bind([X1 \in {IF alloc_is_always_equal(X) \/ m_allocator(X, i) = m_allocator(X, o)
                       THEN swap_cursors(X, i, o)
                       ELSE assign_it(X, i, MoveIt(ibegin(X, o)), MoveIt(iend(X, o)))} |->
             clear(X1, o)])
    ELSE Bind([X1 \in {clear(X, i)} |->
             IF m_data(X1, i) # NULL
             THEN IF alloc_is_always_equal(X)
                  THEN swap_cursors([X1 EXCEPT !.v[i].al = X1.v[o].al], i, o)
                  ELSE Bind([newAlloc \in {m_allocator(X1, o)} |->
                       Bind([X2 \in {IF m_allocator(X1, i) = m_allocator(X1, o)
                                     THEN swap_cursors(X1, i, o)
                                     ELSE Bind([Y1 \in {deallocate_pp(X1, i, m_data(X1, i), m_capacity(X1, i))} |->
                                          Bind([Y2 \in {reset_dsc(Y1, i, m_data(Y1, o), m_size(Y1, o), m_capacity(Y1, o))} |->
                                              reset(Y2, o)])])} |->
                           [X2 EXCEPT !.v[i].al = newAlloc]])])
             ELSE Bind([X2 \in {[X1 EXCEPT !.v[i].al = X1.v[o].al]} |->
                  Bind([X3 \in {reset_dsc(X2, i, m_data(X2, o), m_size(X2, o), m_capacity(X2, o))} |->
                      reset(X3, o)])])])

\* operator=(vector&& rhs); i and o are distinct objects
move_assign(X, i, o) == do_move_assign(X, i, o)

\* ------------------------------------------------------ capacity and size
\* resize(newSize, val)
resize_val(X, i, newSize, val) ==
    Bind([currentSize \in {size(X, i)} |->
        IF newSize < currentSize THEN truncate_internal(X, i, PAdd(ibegin(X, i), newSize))
        ELSE Bind([elementsAdded \in {newSize - currentSize} |->
                 IF elementsAdded # 0 THEN emplace_back_n_internal(X, i, elementsAdded, val) ELSE X])])

\* resize(newSize)
resize(X, i, newSize) ==
    Bind([currentSize \in {size(X, i)} |->
        IF newSize < currentSize THEN truncate_internal(X, i, PAdd(ibegin(X, i), newSize))
        ELSE Bind([elementsAdded \in {newSize - currentSize} |->
                 IF elementsAdded # 0 THEN append_defaults(X, i, elementsAdded) ELSE X])])

shrink_to_fit(X, i) ==
    IF m_size(X, i) = m_data(X, i)
    THEN IF m_data(X, i) # NULL
         THEN reset(deallocate_pp(X, i, m_data(X, i), m_capacity(X, i)), i)
         ELSE X
    ELSE IF m_size(X, i) # m_capacity(X, i)
    THEN Bind([X1 \in {allocate(X, i, size(X, i))} |->
         Bind([newData \in {X1.r} |->
         Bind([X2 \in {move_construct_from_range(X1, newData, PtrIt(ibegin(X1, i)), PtrIt(iend(X1, i)))} |->
         Bind([newSize \in {X2.r} |->
         Bind([X3 \in {destroy(X2, ibegin(X2, i), iend(X2, i))} |->
         Bind([X4 \in {deallocate_pp(X3, i, m_data(X3, i), m_capacity(X3, i))} |->
             reset_dsc(X4, i, newData, newSize, newSize)])])])])])])
    ELSE X

\* ---------------------------------------------------------- element access
\* m_data + index, index a size_type.  With one-byte elements and pointers
\* as wide as size_type, an index of SizeMod / 2 or more takes the address
\* past the end of the address space: the addition overflows, which is
\* undefined; a build computes it modulo the address space (wraps), or
\* compares as if it did not overflow
Indexed(p, index, wraps) ==
    IF wraps /\ index >= SizeMod \div 2 THEN PAdd(p, index - SizeMod) ELSE PAdd(p, index)

\* at(index), const or not; the reference returned is left in X.r
at(X, i, index, wraps) ==
    IF m_data(X, i) # NULL /\ PDiff(Indexed(m_data(X, i), index, wraps), iend(X, i)) < 0
    THEN Bind([position \in {Indexed(m_data(X, i), index, wraps)} |->
             [ReadFaults(X, position) EXCEPT !.r = position]])
    ELSE Throw(X, "out_of_range")

\* ---------------------------------------------------------------- replace
\* replace(first, last, count)
replace_n(X, i, first, lst, count) ==
    Bind([rangeSize \in {PDiff(lst, first)} |->
        IF count <= rangeSize
        THEN Bind([X1 \in {assign_n(X, first, count)} |->
                 erase_internal(X1, i, X1.r, lst)])
        ELSE Bind([insertSize \in {count - rangeSize} |->
                 IF ~many(X, i, insertSize)
                 THEN Bind([X1 \in {move_forward_n(X, i, lst, insertSize)} |->
                      Bind([ufirst \in {X1.r} |->
                      Bind([ulast \in {PAdd(first, count)} |->
                      Bind([X2 \in {construct_range(assign_range(X1, first, ufirst), ufirst, ulast)} |->
                          [X2 EXCEPT !.r = ulast]])])])])
                 ELSE Bind([oldCapacity \in {capacity(X, i)} |->
                      Bind([newCapacity \in {best_capacity(X, i, size(X, i) + insertSize)} |->
                      Bind([X1 \in {allocate(X, i, newCapacity)} |->
                      Bind([newData \in {X1.r} |->
                      Bind([X2 \in {move_construct_from_range(X1, newData, PtrIt(ibegin(X1, i)), PtrIt(first))} |->
                      Bind([X3 \in {construct_n(X2, X2.r, count)} |->
                      Bind([insertLast \in {X3.r} |->
                      Bind([X4 \in {move_construct_from_range(X3, insertLast, PtrIt(lst), PtrIt(iend(X3, i)))} |->
                      Bind([newSize \in {X4.r} |->
                      Bind([X5 \in {destroy(X4, ibegin(X4, i), iend(X4, i))} |->
                      Bind([X6 \in {deallocate(X5, i, m_size(X5, i), oldCapacity)} |->
                          [reset_dsn(X6, i, newData, newSize, newCapacity) EXCEPT !.r = insertLast]])])])])])])])])])])])])])

\* replace(first, last, count, val)
replace_n_val(X, i, first, lst, count, val) ==
    IF first = lst
    THEN IF count > 0
         THEN Bind([X1 \in {emplace_n_internal(X, i, first, count, val)} |->
                  [X1 EXCEPT !.r = PAdd(X1.r, count)]])
         ELSE [X EXCEPT !.r = first]
    ELSE
    Bind([rangeSize \in {PDiff(lst, first)} |->
        IF count <= rangeSize
        THEN Bind([X1 \in {assign_n_val(X, first, count, val)} |->
                 erase_internal(X1, i, X1.r, lst)])
        ELSE Bind([insertSize \in {count - rangeSize} |->
                 IF ~many(X, i, insertSize)
                 THEN Bind([X0 \in {assign_from(X, first, val)} |->
                      Bind([X1 \in {move_forward_n(X0, i, lst, insertSize)} |->
                      Bind([ufirst \in {X1.r} |->
                      Bind([ulast \in {PAdd(first, count)} |->
                      Bind([X2 \in {assign_range_val(X1, PAdd(first, 1), ufirst, PtrRef(first))} |->
                      Bind([X3 \in {construct_range_val(X2, ufirst, ulast, PtrRef(first))} |->
                          [X3 EXCEPT !.r = ulast]])])])])])])
                 ELSE Bind([oldCapacity \in {capacity(X, i)} |->
                      Bind([newCapacity \in {best_capacity(X, i, size(X, i) + insertSize)} |->
                      Bind([X1 \in {allocate(X, i, newCapacity)} |->
                      Bind([newData \in {X1.r} |->
                      Bind([exemplar \in {PAdd(newData, PDiff(first, ibegin(X1, i)))} |->
                      Bind([X2 \in {assign_from(X1, exemplar, val)} |->
                      Bind([X3 \in {move_construct_from_range(X2, newData, PtrIt(ibegin(X2, i)), PtrIt(first))} |->
                      Bind([X4 \in {construct_n_val(X3, PAdd(exemplar, 1), count - 1, PtrRef(exemplar))} |->
                      Bind([insertLast \in {X4.r} |->
                      Bind([X5 \in {move_construct_from_range(X4, insertLast, PtrIt(lst), PtrIt(iend(X4, i)))} |->
                      Bind([newSize \in {X5.r} |->
                      Bind([X6 \in {destroy(X5, ibegin(X5, i), iend(X5, i))} |->
                      Bind([X7 \in {deallocate(X6, i, m_size(X6, i), oldCapacity)} |->
                          [reset_dsn(X7, i, newData, newSize, newCapacity) EXCEPT !.r = insertLast]])])])])])])])])])])])])])])])

\* do_replace_range(first1, last1, first2, last2, input_iterator_tag); the
\* source erases and inserts at `first` and `last`, names it does not
\* declare: they are first1 and last1 as the assignment left them
do_replace_range_input(X, i, first1, last1, first2, last2) ==
    Bind([X1 \in {checked_copy_assign_range(X, first1, last1, first2, last2)} |->
        IF ItEq(X1.it, last2)
        THEN erase_range(X1, i, X1.r, last1)
        ELSE Bind([oldSize \in {size(X1, i)} |->
             Bind([X2 \in {insert_it(X1, i, last1, X1.it, last2)} |->
                 [X2 EXCEPT !.r = PAdd(X2.r, size(X2, i) - oldSize)]])])])

\* do_replace_range(first, last, first2, last2, forward_iterator_tag); the
\* source hands the rest of the range to construct_range, which takes a
\* value: it is constructed with copy_construct_range, as insert_range does
do_replace_range_forward(X, i, first, lst, first2, last2) ==
    Bind([D \in {distance(X, first2, last2)} |->
    Bind([count \in {D.r} |->
    Bind([rangeSize \in {PDiff(lst, first)} |->
        IF count <= rangeSize
        THEN Bind([X1 \in {copy_assign_from_range(D, first, first2, last2)} |->
                 erase_internal(X1, i, X1.r, lst)])
        ELSE Bind([insertSize \in {count - rangeSize} |->
                 IF ~many(D, i, insertSize)
                 THEN Bind([X1 \in {move_forward_n(D, i, lst, insertSize)} |->
                      Bind([ufirst \in {X1.r} |->
                      Bind([ulast \in {PAdd(first, count)} |->
                      Bind([X2 \in {copy_assign_range(X1, first, ufirst, first2)} |->
                      Bind([X3 \in {copy_construct_range(X2, ufirst, ulast, X2.it)} |->
                          [X3 EXCEPT !.r = ulast]])])])])])
                 ELSE Bind([oldCapacity \in {capacity(D, i)} |->
                      Bind([newCapacity \in {best_capacity(D, i, size(D, i) + insertSize)} |->
                      Bind([X1 \in {allocate(D, i, newCapacity)} |->
                      Bind([newData \in {X1.r} |->
                      Bind([X2 \in {move_construct_from_range(X1, newData, PtrIt(ibegin(X1, i)), PtrIt(first))} |->
                      Bind([insertFirst \in {X2.r} |->
                      Bind([X3 \in {copy_construct_from_range(X2, insertFirst, first2, last2)} |->
                      Bind([insertLast \in {X3.r} |->
                      Bind([X4 \in {move_construct_from_range(X3, insertLast, PtrIt(lst), PtrIt(iend(X3, i)))} |->
                      Bind([newSize \in {X4.r} |->
                      Bind([X5 \in {destroy(X4, ibegin(X4, i), iend(X4, i))} |->
                      Bind([X6 \in {deallocate(X5, i, m_size(X5, i), oldCapacity)} |->
                          [reset_dsn(X6, i, newData, newSize, newCapacity) EXCEPT !.r = insertLast]])])])])])])])])])])])])])])])])

\* replace(first1, last1, first2, last2); where the source subtracts
\* `count`, a name it does not declare, the number of elements the insert
\* added is subtracted, as insert(pos, first, last) does; where it returns
\* `first`, first1 is returned
replace_range(X, i, first1, last1, first2, last2) ==
    IF first1 = last1
    THEN IF ~ItEq(first2, last2)
         THEN Bind([oldSize \in {size(X, i)} |->
              Bind([X1 \in {insert_range(X, i, first1, first2, last2)} |->
              Bind([insertFirst \in {X1.r} |->
              Bind([newSize \in {size(X1, i)} |->
                  [X1 EXCEPT !.r = PAdd(insertFirst, 0 - (newSize - oldSize))]])])])])
         ELSE [X EXCEPT !.r = first1]
    ELSE IF ItEq(first2, last2)
    THEN [erase_internal(X, i, first1, last1) EXCEPT !.r = first1]
    ELSE IF IsInputTag(first2) THEN do_replace_range_input(X, i, first1, last1, first2, last2)
    ELSE do_replace_range_forward(X, i, first1, last1, first2, last2)

\* ------------------------------------------------------ logical operators
\* std::equal(first1, last1, first2)
RECURSIVE equal(_, _, _, _)
equal(X, first1, last1, first2) ==
    IF first1 = last1 THEN TRUE
    ELSE IF ~(Slot(X, first1) = Slot(X, first2)) THEN FALSE
    ELSE equal(X, PAdd(first1, 1), last1, PAdd(first2, 1))

\* kane::unchecked_lexicographical_compare(first1, last1, first2)
RECURSIVE unchecked_lexicographical_compare(_, _, _, _)
unchecked_lexicographical_compare(X, first1, last1, first2) ==
    IF first1 = last1 THEN FALSE
    ELSE IF Slot(X, first1) < Slot(X, first2) THEN TRUE
    ELSE IF Slot(X, first2) < Slot(X, first1) THEN FALSE
    ELSE unchecked_lexicographical_compare(X, PAdd(first1, 1), last1, PAdd(first2, 1))

\* operator==(rhs), with i the vector it is called on and o the vector rhs
operator_eq(X, i, o) ==
    size(X, i) = size(X, o) /\ equal(X, ibegin(X, i), iend(X, i), ibegin(X, o))

\* operator!=(rhs)
operator_ne(X, i, o) ==
    size(X, i) # size(X, o) \/ ~equal(X, ibegin(X, i), iend(X, i), ibegin(X, o))

\* operator<(rhs)
operator_lt(X, i, o) ==
    IF size(X, i) < size(X, o) THEN TRUE
    ELSE IF size(X, i) = size(X, o)
    THEN unchecked_lexicographical_compare(X, ibegin(X, i), iend(X, i), ibegin(X, o))
    ELSE FALSE

\* mutant of operator<=: the sizes alone decide
operator_le_by_size(X, i, o) == size(X, i) <= size(X, o)

\* operator<=(rhs)
operator_le(X, i, o) ==
    IF size(X, i) < size(X, o) THEN TRUE
    ELSE IF size(X, i) = size(X, o)
    THEN ~unchecked_lexicographical_compare(X, ibegin(X, o), iend(X, o), ibegin(X, i))
    ELSE FALSE

\* operator>(rhs): !(rhs <= *this)
operator_gt(X, i, o) == ~operator_le(X, o, i)

\* operator>=(rhs): !(rhs < *this)
operator_ge(X, i, o) == ~operator_lt(X, o, i)

\* ============================================================ the machine
\* Vector 1 is A, vector 2 is B.
A == 1
B == 2

\* the elements of vector i, as begin() .. end() shows them
RECURSIVE ContentsFrom(_, _, _)
ContentsFrom(X, p, n) == IF n <= 0 THEN <<>> ELSE <<Slot(X, p)>> \o ContentsFrom(X, PAdd(p, 1), n - 1)
Contents(X, i) == ContentsFrom(X, m_data(X, i), size(X, i))

\* Faults that are undefined behaviour: the call may crash, or go on.
UBFaults == {"wild_write", "wild_read", "read_uninit", "assign_to_uninit", "destroy_uninit",
             "dealloc_wrong_size", "dealloc_wrong_allocator", "dealloc_bad_pointer",
             "bad_range", "source_overrun", "assert_move_forward_1",
             "assert_move_forward_n_position", "assert_move_forward_n_sz",
             "assert_do_construct_range"}

\* The machine at the start of a call: the state, with an external source
\* sequence, or a single-pass stream whose first element is already cached
\* in the iterator.
Machine(tr, v, h, src, st) ==
    [tr |-> tr, v |-> v, h |-> h, f |-> {}, src |-> src, st |-> st, r |-> NULL, r2 |-> NULL,
     it |-> InEnd, t |-> <<>>, hr |-> <<>>, out |-> <<>>, n |-> 3, ex |-> "none",
     failAt |-> 0, snap |-> <<>>, log |-> <<>>]
Start(src, st) == Machine(traits, vec, heap, src, st)
Begin == Start(<<>>, <<>>)

\* A cursor of vector i after its buffer was renamed to i
Rename(X, i, p) ==
    IF p = NULL THEN NULL
    ELSE IF p[1] = m_data(X, i)[1] THEN <<i, p[2]>>
    ELSE <<9, p[2]>>

\* The slots of vector i that hold an object are exactly [data, live_end)
ExactlyLive(X, i) ==
    \/ ~X.v[i].alive
    \/ m_data(X, i) = NULL
    \/ /\ InBuf(X, m_data(X, i))
       /\ \A k \in 1..Len(X.h[m_data(X, i)[1]].s) :
            (X.h[m_data(X, i)[1]].s[k] # U) <=> (k <= size(X, i))

Owned(X, b) == \E i \in {A, B} : X.v[i].alive /\ m_data(X, i) # NULL /\ m_data(X, i)[1] = b

\* What is left of the heap after a call: the buffer of vector i is named
\* i; a buffer no vector owns has leaked.  Storage past the live end of a
\* vector of trivially destructible elements holds nothing.
Settle(X) ==
    LET owns(i) == X.v[i].alive /\ m_data(X, i) # NULL /\ m_data(X, i)[1] \in DOMAIN X.h
        tidy(i) == Bind([b \in {X.h[m_data(X, i)[1]]} |->
                       IF value_has_trivial_destroy(X)
                       THEN [b EXCEPT !.s = [k \in 1..Len(b.s) |-> IF k > size(X, i) THEN U ELSE b.s[k]]]
                       ELSE b])
        h1 == [i \in {j \in {A, B} : owns(j)} |-> tidy(i)]
        v1 == [i \in {A, B} |-> [X.v[i] EXCEPT !.data = Rename(X, i, @), !.size = Rename(X, i, @),
                                                !.cap = Rename(X, i, @)]]
        f1 == IF \E b \in DOMAIN X.h : ~Owned(X, b) THEN {"leak"} ELSE {}
        f2 == IF owns(A) /\ owns(B) /\ m_data(X, A)[1] = m_data(X, B)[1] THEN {"shared_buffer"} ELSE {}
        f3 == IF \E i \in {A, B} : X.v[i].alive /\ m_data(X, i) # NULL /\ ~owns(i)
              THEN {"dangling_buffer"} ELSE {}
        f4 == IF ~value_has_trivial_destroy(X) /\ \E i \in {A, B} : ~ExactlyLive(X, i)
              THEN {"live_range_mismatch"} ELSE {}
    IN [X EXCEPT !.v = v1, !.h = h1, !.f = @ \cup f1 \cup f2 \cup f3 \cup f4]

\* the record of the last call
NoCall == [op |-> "none", on |-> 0, pos |-> 0, pos2 |-> 0, count |-> 0, arg |-> ValRef(0), val |-> 0,
           src |-> <<>>, kind |-> "", pre |-> <<>>, preCap |-> 0, preNull |-> FALSE,
           other |-> <<>>, otherCap |-> 0, otherNull |-> FALSE, ret |-> 0, out |-> <<>>, moved |-> FALSE, kept |-> FALSE,
           allocs |-> 0, ref |-> <<>>, res |-> FALSE, thrown |-> "none", of |-> "",
           alt |-> <<>>, log |-> <<>>, old |-> 0, new |-> 0]

Call(op, i) ==
    [NoCall EXCEPT !.op = op, !.on = i,
                   !.pre = Contents(Begin, i), !.preCap = capacity(Begin, i),
                   !.preNull = (m_data(Begin, i) = NULL), !.old = m_data(Begin, i)[1],
                   !.other = Contents(Begin, 3 - i), !.otherCap = capacity(Begin, 3 - i),
                   !.otherNull = (m_data(Begin, 3 - i) = NULL)]

\* vector i has taken over the buffer vector o had when the call began
Transferred(X, i, o) == m_data(Begin, o) # NULL /\ m_data(X, i) = m_data(Begin, o)

\* the call neither allocated nor deallocated, and vector i has the data
\* pointer it had when the call began
Untouched(X, i) == X.n = Begin.n /\ DOMAIN X.h = DOMAIN Begin.h /\ m_data(X, i) = m_data(Begin, i)

\* the number of buffers a call allocated
Allocations(X) == X.n - Begin.n

\* the pointer a call returned, as an index into the vector it was called on
RetIndex(X, i) ==
    IF X.r = NULL THEN (IF m_data(X, i) = NULL THEN 0 ELSE -1)
    ELSE IF m_data(X, i) # NULL /\ X.r[1] = m_data(X, i)[1] THEN PDiff(X.r, m_data(X, i))
    ELSE -1

\* A sequence of operations is kept within MaxSize and MaxCap
Bounded(X) ==
    mode # "sequence" \/ \A i \in {A, B} : size(X, i) <= MaxSize /\ capacity(X, i) <= MaxCap

\* A call that took the machine to X ends: undefined behaviour may crash
\* the program, a loop that runs off the address space does.
Return(X, call) ==
    \E N \in {Settle(Unwound(X))} :
       /\ Bounded(N)
       /\ faults' = N.f
       /\ crashed' \in (IF "runaway_loop" \in N.f THEN {TRUE}
                        ELSE IF N.f \cap UBFaults # {} THEN BOOLEAN ELSE {FALSE})
       /\ vec' = IF crashed' THEN vec ELSE N.v
       /\ heap' = IF crashed' THEN heap ELSE N.h
       /\ last' = IF mode = "sequence" THEN NoCall
                  ELSE [call EXCEPT !.log = X.log,
                                    !.new = IF call.on \in {A, B} THEN m_data(X, call.on)[1] ELSE 0]
       /\ UNCHANGED <<traits, mode>>

\* A call is possible.  Mode "sequence" is any sequence of operations on A,
\* mode "single" one operation on a constructed A or one construction of B,
\* mode "pair" one operation on two constructed vectors, or one construction
\* of B, with any allocator.
Ready == ~crashed /\ (mode = "sequence" \/ (mode = "single" /\ last.op = "none"))
ReadyOnce == Ready /\ mode = "single"
ReadyNew == ~crashed /\ mode \in {"single", "pair"} /\ last.op = "none" /\ ~vec[2].alive
ReadyPair == ~crashed /\ mode = "pair" /\ last.op = "none" /\ vec[2].alive
Size(i) == size(Begin, i)
Pos(i, k) == PAdd(ibegin(Begin, i), k)

\* the arguments a call may be given: a value, or a reference to an
\* element of the vector itself
Args(i) == {ValRef(x) : x \in Values} \cup {PtrRef(Pos(i, k)) : k \in 0..(Size(i) - 1)}
ValArgs == {ValRef(x) : x \in Values}

RECURSIVE SeqsUpTo(_)
SeqsUpTo(n) ==
    IF n = 0 THEN {<<>>}
    ELSE Bind([S \in {SeqsUpTo(n - 1)} |->
             S \cup {Append(q, x) : q \in {r \in S : Len(r) = n - 1}, x \in Values}])

SrcSeqs == SeqsUpTo(IF mode = "sequence" THEN MaxSeqSrc ELSE MaxSrc)
RepSeqs == SeqsUpTo(MaxRep)
Kinds == {"multi", "single"}

\* the range [first, last) over the source q, as multi-pass or single-pass
\* iterators
First(q, kind) == IF kind = "multi" THEN FwdIt(1) ELSE IF q = <<>> THEN InEnd ELSE InIt(Head(q))
Last(q, kind) == IF kind = "multi" THEN FwdIt(Len(q) + 1) ELSE InEnd
Source(q, kind) == IF kind = "multi" THEN Start(q, <<>>) ELSE Start(<<>>, IF q = <<>> THEN <<>> ELSE Tail(q))

\* ------------------------------------------------------ operations on A
\* the same call on the same vector, taking the other value of use_simple_insert
OtherPath(X) == [X EXCEPT !.tr.simple = ~@]
Outcome(Y, i) == <<[seq |-> Contents(Y, i), size |-> size(Y, i), cap |-> capacity(Y, i), f |-> Y.f]>>

PushBack ==
    /\ Ready
    /\ \E a \in Args(A) :
        /\ Return(push_back(Begin, A, a), [Call("push_back", A) EXCEPT !.arg = a, !.val = ItVal(Begin, a),
                                              !.alt = Outcome(push_back(OtherPath(Begin), A, a), A)])

PushBackDefault ==
    /\ Ready
    /\ Return(push_back_default(Begin, A), Call("push_back_default", A))

EmplaceBack ==
    /\ Ready
    /\ \E a \in ValArgs :
        /\ \E X \in {emplace_back(Begin, A, a)} :
              Return(X, [Call("emplace_back", A) EXCEPT !.arg = a, !.val = a.c, !.ret = RetIndex(X, A),
                                                        !.alt = Outcome(emplace_back(OtherPath(Begin), A, a), A)])

PopBack ==
    /\ Ready
    /\ Return(pop_back(Begin, A), Call("pop_back", A))

Insert ==
    /\ Ready
    /\ \E k \in 0..Size(A), a \in Args(A) :
        /\ \E X \in {insert(Begin, A, Pos(A, k), a)} :
              Return(X, [Call("insert", A) EXCEPT !.pos = k, !.arg = a, !.val = ItVal(Begin, a),
                                                  !.ret = RetIndex(X, A),
                                                  !.alt = Outcome(insert(OtherPath(Begin), A, Pos(A, k), a), A)])

InsertN ==
    /\ Ready
    /\ \E k \in 0..Size(A), count \in 0..MaxCount, a \in Args(A) :
        /\ \E X \in {insert_n(Begin, A, Pos(A, k), count, a)} :
              Return(X, [Call("insert_n", A) EXCEPT !.pos = k, !.count = count, !.arg = a,
                                                    !.val = ItVal(Begin, a), !.ret = RetIndex(X, A),
                                                    !.alt = Outcome(insert_n(OtherPath(Begin), A, Pos(A, k), count, a), A)])

\* the same insertion, made through multi-pass iterators
ViaMultiPass(k, q) == insert_it(Source(q, "multi"), A, Pos(A, k), First(q, "multi"), Last(q, "multi"))

InsertRange ==
    /\ Ready
    /\ \E k \in 0..Size(A), q \in SrcSeqs, kind \in Kinds :
        /\ \E X \in {insert_it(Source(q, kind), A, Pos(A, k), First(q, kind), Last(q, kind))} :
              Return(X, [Call("insert_range", A) EXCEPT !.pos = k, !.src = q, !.kind = kind,
                                                        !.ret = RetIndex(X, A),
                                                        !.allocs = Allocations(X),
                                                        !.ref = IF mode = "sequence" THEN <<>>
                                                                 ELSE Contents(ViaMultiPass(k, q), A)])

Emplace ==
    /\ Ready
    /\ \E k \in 0..Size(A), a \in ValArgs :
        /\ \E X \in {emplace(Begin, A, Pos(A, k), a)} :
              Return(X, [Call("emplace", A) EXCEPT !.pos = k, !.arg = a, !.val = a.c, !.ret = RetIndex(X, A),
                                                   !.alt = Outcome(emplace(OtherPath(Begin), A, Pos(A, k), a), A)])

EmplaceDefault ==
    /\ Ready
    /\ \E k \in 0..Size(A) :
        /\ \E X \in {emplace_default(Begin, A, Pos(A, k))} :
              Return(X, [Call("emplace_default", A) EXCEPT !.pos = k, !.ret = RetIndex(X, A)])

Erase ==
    /\ Ready
    /\ \E k \in 0..(Size(A) - 1) :
        /\ \E X \in {erase(Begin, A, Pos(A, k))} :
              Return(X, [Call("erase", A) EXCEPT !.pos = k, !.ret = RetIndex(X, A),
                                                 !.kept = Untouched(X, A)])

\* erase(begin()) on an empty vector
EraseBegin ==
    /\ Ready
    /\ Size(A) = 0
    /\ \E X \in {erase(Begin, A, ibegin(Begin, A))} :
          Return(X, [Call("erase_begin", A) EXCEPT !.ret = RetIndex(X, A), !.kept = Untouched(X, A)])

EraseRange ==
    /\ Ready
    /\ \E k \in 0..Size(A) : \E l \in k..Size(A) :
        /\ \E X \in {erase_range(Begin, A, Pos(A, k), Pos(A, l))} :
              Return(X, [Call("erase_range", A) EXCEPT !.pos = k, !.pos2 = l, !.ret = RetIndex(X, A),
                                                       !.kept = Untouched(X, A)])

\* V.erase(V.insert(p, x))
InsertErase ==
    /\ Ready
    /\ \E k \in 0..Size(A), a \in Args(A) :
        /\ \E X1 \in {insert(Begin, A, Pos(A, k), a)} : \E X2 \in {erase(X1, A, X1.r)} :
              Return(X2, [Call("erase_insert", A) EXCEPT !.pos = k, !.arg = a, !.val = ItVal(Begin, a),
                                                         !.ret = RetIndex(X2, A)])

Clear ==
    /\ Ready
    /\ Return(clear(Begin, A), Call("clear", A))

Reserve ==
    /\ Ready
    /\ \E n \in 0..MaxCap :
        /\ Return(reserve(Begin, A, n), [Call("reserve", A) EXCEPT !.count = n])

Resize ==
    /\ Ready
    /\ \E n \in 0..MaxSize :
        /\ Return(resize(Begin, A, n), [Call("resize", A) EXCEPT !.count = n])

ResizeVal ==
    /\ Ready
    /\ \E n \in 0..MaxSize, a \in Args(A) :
        /\ Return(resize_val(Begin, A, n, a),
                  [Call("resize_val", A) EXCEPT !.count = n, !.arg = a, !.val = ItVal(Begin, a)])

\* the indices at is called with: within and past the capacity, and the
\* greatest size_type
Indices == 0..(capacity(Begin, A) + 1) \cup {SizeMod - 1}

\* at(index); it leaves the vector as it is, and is called once
At ==
    /\ ReadyOnce
    /\ \E index \in Indices, wraps \in BOOLEAN :
        /\ \E X \in {at(Begin, A, index, wraps)} :
              Return(X, [Call("at", A) EXCEPT !.pos = index, !.thrown = X.ex, !.kept = Untouched(X, A),
                                              !.ret = RetIndex(X, A), !.val = Slot(X, X.r)])

ShrinkToFit ==
    /\ Ready
    /\ Return(shrink_to_fit(Begin, A), Call("shrink_to_fit", A))

AssignN ==
    /\ Ready
    /\ \E n \in 0..MaxSize, a \in ValArgs :
        /\ \E X \in {assign_n_value(Begin, A, n, a)} :
              Return(X, [Call("assign_n", A) EXCEPT !.count = n, !.arg = a, !.val = a.c,
                                                    !.kept = Untouched(X, A)])

AssignRange ==
    /\ Ready
    /\ \E q \in SrcSeqs, kind \in Kinds :
        /\ \E X \in {assign_it(Source(q, kind), A, First(q, kind), Last(q, kind))} :
              Return(X, [Call("assign_range", A) EXCEPT !.src = q, !.kind = kind,
                                                        !.kept = Untouched(X, A)])

TakeBack ==
    /\ Ready
    /\ \E X \in {take_back(Begin, A)} :
          Return(X, [Call("take_back", A) EXCEPT !.val = X.r])

Take ==
    /\ Ready
    /\ \E k \in 0..(Size(A) - 1) :
        /\ \E X \in {take(Begin, A, Pos(A, k))} :
              Return(X, [Call("take", A) EXCEPT !.pos = k, !.val = X.r])

TakeRange ==
    /\ Ready
    /\ \E k \in 0..Size(A) : \E l \in k..Size(A) :
        /\ \E X \in {take_range(Begin, A, Pos(A, k), Pos(A, l))} :
              Return(X, [Call("take_range", A) EXCEPT !.pos = k, !.pos2 = l, !.out = X.out,
                                                      !.ret = RetIndex(X, A)])

ReplaceN ==
    /\ Ready
    /\ \E k \in 0..Size(A), count \in 0..MaxCount : \E l \in k..Size(A) :
        /\ \E X \in {replace_n(Begin, A, Pos(A, k), Pos(A, l), count)} :
              Return(X, [Call("replace_n", A) EXCEPT !.pos = k, !.pos2 = l, !.count = count,
                                                     !.ret = RetIndex(X, A)])

ReplaceNVal ==
    /\ Ready
    /\ \E k \in 0..Size(A), count \in 0..MaxCount, a \in ValArgs : \E l \in k..Size(A) :
        /\ \E X \in {replace_n_val(Begin, A, Pos(A, k), Pos(A, l), count, a)} :
              Return(X, [Call("replace_n_val", A) EXCEPT !.pos = k, !.pos2 = l, !.count = count,
                                                         !.arg = a, !.val = a.c, !.ret = RetIndex(X, A)])

\* the same replacement, made by erase(first, last) and then
\* insert(position, first2, last2) at the position erase returned
ViaEraseInsert(k, l, q, kind) ==
    Bind([X1 \in {erase_range(Source(q, kind), A, Pos(A, k), Pos(A, l))} |->
        insert_it(X1, A, X1.r, First(q, kind), Last(q, kind))])

ReplaceRange ==
    /\ Ready
    /\ \E k \in 0..Size(A), q \in RepSeqs, kind \in Kinds : \E l \in k..Size(A) :
        /\ \E X \in {replace_range(Source(q, kind), A, Pos(A, k), Pos(A, l), First(q, kind), Last(q, kind))} :
              Return(X, [Call("replace_range", A) EXCEPT !.pos = k, !.pos2 = l, !.src = q, !.kind = kind,
                                                         !.ret = RetIndex(X, A),
                                                         !.allocs = Allocations(X),
                                                         !.ref = IF mode = "sequence" THEN <<>>
                                                                  ELSE Contents(ViaEraseInsert(k, l, q, kind), A)])

\* --------------------------------------- comparisons of A and B, both ways
\* a comparison changes nothing and returns its result
Compared(op, i, result) == Return(Begin, [Call(op, i) EXCEPT !.res = result])

Equal ==
    \E i \in {A, B} : ReadyPair /\ Compared("operator_eq", i, operator_eq(Begin, i, 3 - i))

NotEqual ==
    \E i \in {A, B} : ReadyPair /\ Compared("operator_ne", i, operator_ne(Begin, i, 3 - i))

Less ==
    \E i \in {A, B} : ReadyPair /\ Compared("operator_lt", i, operator_lt(Begin, i, 3 - i))

LessEqual ==
    \E i \in {A, B} : ReadyPair /\ Compared("operator_le", i, operator_le(Begin, i, 3 - i))

Greater ==
    \E i \in {A, B} : ReadyPair /\ Compared("operator_gt", i, operator_gt(Begin, i, 3 - i))

GreaterEqual ==
    \E i \in {A, B} : ReadyPair /\ Compared("operator_ge", i, operator_ge(Begin, i, 3 - i))

\* ------------------------------------- operations on A that run out of memory
\* the allocation that fails, counted within the call
MaxFail == 2
FailPoints == 1..MaxFail
Short(X, k) == [X EXCEPT !.failAt = k]

\* a call that ended in bad_alloc
Failed(X, op, call) ==
    /\ X.ex = "bad_alloc"
    /\ Return(X, [call EXCEPT !.op = "bad_alloc", !.of = op, !.thrown = X.ex,
                              !.allocs = X.failAt - 1,
                              !.kept = (m_data(Unwound(X), A) = m_data(Begin, A))])

ReserveFails ==
    /\ ReadyOnce
    /\ \E n \in 0..MaxCap, f \in FailPoints :
          Failed(reserve(Short(Begin, f), A, n), "reserve", [Call("reserve", A) EXCEPT !.count = n])

PushBackFails ==
    /\ ReadyOnce
    /\ \E a \in Args(A), f \in FailPoints :
          Failed(push_back(Short(Begin, f), A, a), "push_back", [Call("push_back", A) EXCEPT !.arg = a])

EmplaceBackFails ==
    /\ ReadyOnce
    /\ \E a \in ValArgs, f \in FailPoints :
          Failed(emplace_back(Short(Begin, f), A, a), "emplace_back", [Call("emplace_back", A) EXCEPT !.arg = a])

InsertFails ==
    /\ ReadyOnce
    /\ \E k \in 0..Size(A), a \in Args(A), f \in FailPoints :
          Failed(insert(Short(Begin, f), A, Pos(A, k), a), "insert",
                            [Call("insert", A) EXCEPT !.pos = k, !.arg = a])

InsertNFails ==
    /\ ReadyOnce
    /\ \E k \in 0..Size(A), count \in 1..MaxCount, a \in Args(A), f \in FailPoints :
          Failed(insert_n(Short(Begin, f), A, Pos(A, k), count, a), "insert_n",
                            [Call("insert_n", A) EXCEPT !.pos = k, !.count = count, !.arg = a])

InsertRangeFails ==
    /\ ReadyOnce
    /\ \E k \in 0..Size(A), q \in RepSeqs, kind \in Kinds, f \in FailPoints :
          Failed(insert_it(Short(Source(q, kind), f), A, Pos(A, k), First(q, kind), Last(q, kind)),
                            "insert_range",
                            [Call("insert_range", A) EXCEPT !.pos = k, !.src = q, !.kind = kind])

EmplaceFails ==
    /\ ReadyOnce
    /\ \E k \in 0..Size(A), a \in ValArgs, f \in FailPoints :
          Failed(emplace(Short(Begin, f), A, Pos(A, k), a), "emplace",
                            [Call("emplace", A) EXCEPT !.pos = k, !.arg = a])

ResizeFails ==
    /\ ReadyOnce
    /\ \E n \in 0..MaxSize, f \in FailPoints :
          Failed(resize(Short(Begin, f), A, n), "resize", [Call("resize", A) EXCEPT !.count = n])

ResizeValFails ==
    /\ ReadyOnce
    /\ \E n \in 0..MaxSize, a \in Args(A), f \in FailPoints :
          Failed(resize_val(Short(Begin, f), A, n, a), "resize_val",
                            [Call("resize_val", A) EXCEPT !.count = n, !.arg = a])

NextFails ==
    \/ ReserveFails \/ PushBackFails \/ EmplaceBackFails \/ InsertFails \/ InsertNFails
    \/ InsertRangeFails \/ EmplaceFails \/ ResizeFails \/ ResizeValFails

\* --------------------------------------------- construction of B, from A
\* the allocator B is given: all allocators are one when they always
\* compare equal
AllocIds == IF traits.alwaysEq THEN {1} ELSE {1, 2}
Born(X, al) == [X EXCEPT !.v[B].alive = TRUE, !.v[B].al = al]

ConstructDefault ==
    /\ ReadyNew
    /\ \E al \in AllocIds :
        /\ Return(vector_default(Born(Begin, al), B), Call("vector", B))

ConstructCapacity ==
    /\ ReadyNew
    /\ \E c \in 0..MaxSize :
        /\ Return(vector_capacity(Born(Begin, 1), B, c), [Call("vector_capacity", B) EXCEPT !.count = c])

ConstructSize ==
    /\ ReadyNew
    /\ \E n \in 0..MaxSize :
        /\ Return(vector_size(Born(Begin, 1), B, n), [Call("vector_size", B) EXCEPT !.count = n])

ConstructFill ==
    /\ ReadyNew
    /\ \E n \in 0..MaxSize, a \in ValArgs :
        /\ Return(vector_fill(Born(Begin, 1), B, n, a),
                  [Call("vector_fill", B) EXCEPT !.count = n, !.arg = a, !.val = a.c])

ConstructRange ==
    /\ ReadyNew
    /\ \E q \in SrcSeqs, kind \in Kinds :
        /\ Return(vector_range(Born(Source(q, kind), 1), B, First(q, kind), Last(q, kind)),
                  [Call("vector_range", B) EXCEPT !.src = q, !.kind = kind])

CopyConstruct ==
    /\ ReadyNew
    /\ Return(vector_copy(Born(Begin, 1), B, A), Call("vector_copy", B))

MoveConstruct ==
    /\ ReadyNew
    /\ \E X \in {vector_move(Born(Begin, 1), B, A)} :
          Return(X, [Call("vector_move", B) EXCEPT !.moved = Transferred(X, B, A)])

MoveConstructAlloc ==
    /\ ReadyNew
    /\ \E al \in AllocIds :
        /\ \E X \in {vector_move_alloc(Born(Begin, al), B, A, al)} :
              Return(X, [Call("vector_move_alloc", B) EXCEPT !.moved = Transferred(X, B, A)])

Destroy ==
    /\ ReadyPair
    /\ \E X \in {vector_destroy(Begin, B)} :
          Return([X EXCEPT !.v[B].alive = FALSE], Call("destroy", B))

\* --------------------------------------------- operations on two vectors
CopyAssign ==
    /\ ReadyPair
    /\ \E i \in {A, B} :
        /\ Return(copy_assign(Begin, i, 3 - i), Call("copy_assign", i))

MoveAssign ==
    /\ ReadyPair
    /\ \E i \in {A, B} :
        /\ \E X \in {move_assign(Begin, i, 3 - i)} :
              Return(X, [Call("move_assign", i) EXCEPT !.moved = Transferred(X, i, 3 - i)])

Swap ==
    /\ ReadyPair
    /\ Return(swap(Begin, A, B), Call("swap", A))

\* ------------------------------------------------------------------ Init
\* value types and allocators: trivial or not, simple insert or not, with
\* std::allocator's traits, and a stateful allocator with either move
\* propagation
StdAlloc == [propCopy |-> FALSE, propMove |-> TRUE, propSwap |-> FALSE, alwaysEq |-> TRUE]
TraitsOf(trivial, simple, al) ==
    [trivial |-> trivial, simple |-> simple, propCopy |-> al.propCopy, propMove |-> al.propMove,
     propSwap |-> al.propSwap, alwaysEq |-> al.alwaysEq]
ValueTraits == {TraitsOf(t, s, StdAlloc) : t \in BOOLEAN, s \in BOOLEAN}
AllocTraits ==
    {TraitsOf(t, TRUE, [propCopy |-> pc, propMove |-> pm, propSwap |-> pm, alwaysEq |-> eq]) :
        t \in BOOLEAN, pc \in BOOLEAN, pm \in BOOLEAN, eq \in BOOLEAN}

Unborn == [data |-> NULL, size |-> NULL, cap |-> NULL, al |-> 1, alive |-> FALSE]
NoHeap == [b \in {} |-> [a |-> 1, s |-> <<>>]]

\* A default-constructed, B not constructed yet
Fresh(tr) == vector_default(Machine(tr, [i \in {A, B} |-> [Unborn EXCEPT !.alive = (i = A)]], NoHeap, <<>>, <<>>), A)

\* vector i constructed from the multi-pass range q with allocator al, and
\* then reserve(Len(q) + spare)
Built(X, i, q, spare, al) ==
    Bind([X0 \in {[X EXCEPT !.v[i].alive = TRUE, !.v[i].al = al, !.src = q, !.n = 3]} |->
    Bind([X1 \in {vector_range(X0, i, FwdIt(1), FwdIt(Len(q) + 1))} |->
        Settle(reserve(X1, i, Len(q) + spare))])])

\* sequences of operations from a default-constructed A
InitSeq ==
    /\ traits \in ValueTraits
    /\ mode = "sequence"
    /\ \E X \in {Settle(Fresh(traits))} : vec = X.v /\ heap = X.h
    /\ faults = {}
    /\ crashed = FALSE
    /\ last = NoCall

\* one operation on a constructed A
InitOps ==
    /\ traits \in ValueTraits
    /\ mode = "single"
    /\ \E q \in SeqsUpTo(MaxLen), spare \in 0..MaxSpare :
          \E X \in {Built(Fresh(traits), A, q, spare, 1)} : vec = X.v /\ heap = X.h
    /\ faults = {}
    /\ crashed = FALSE
    /\ last = NoCall

\* one operation on two constructed vectors, or on A with B still to be
\* constructed
MaxPairLen == 2
MaxPairSpare == 1
InitPair ==
    /\ traits \in AllocTraits
    /\ mode = "pair"
    /\ \E qa \in SeqsUpTo(MaxPairLen), sa \in 0..MaxPairSpare :
          \E XA \in {Built(Fresh(traits), A, qa, sa, 1)} :
             \/ vec = XA.v /\ heap = XA.h
             \/ \E qb \in SeqsUpTo(MaxPairLen), sb \in 0..MaxPairSpare, al \in AllocIds :
                   \E X \in {Built(XA, B, qb, sb, al)} : vec = X.v /\ heap = X.h
    /\ faults = {}
    /\ crashed = FALSE
    /\ last = NoCall

\* ------------------------------------------------------------------ Next
\* make_gap_n(position, sz), called where the vector has too little capacity
MakeGap ==
    /\ ReadyOnce
    /\ \E k \in 0..Size(A), count \in 1..MaxCount :
        /\ many(Begin, A, count)
        /\ \E X \in {make_gap_n(Begin, A, Pos(A, k), count)} :
              Return(X, [Call("make_gap_n", A) EXCEPT !.pos = k, !.count = count, !.ret = RetIndex(X, A),
                                                      !.res = (X.r = X.r2)])

NextOps ==
    \/ NextFails
    \/ PushBack \/ PushBackDefault \/ EmplaceBack \/ PopBack
    \/ Insert \/ InsertN \/ InsertRange \/ Emplace \/ EmplaceDefault
    \/ Erase \/ EraseBegin \/ EraseRange \/ InsertErase \/ Clear
    \/ Reserve \/ Resize \/ ResizeVal \/ ShrinkToFit \/ At
    \/ AssignN \/ AssignRange
    \/ TakeBack \/ Take \/ TakeRange
    \/ ReplaceN \/ ReplaceNVal \/ ReplaceRange
    \/ MakeGap

NextNew == ConstructDefault \/ ConstructCapacity \/ ConstructSize \/ ConstructFill \/ ConstructRange

\* set_allocator(newAlloc).  The source calls `deallocate()`, which matches
\* no overload; it is taken as deallocate(m_data, m_capacity).  The
\* temporary vector of the last branch lives in the slot B.
set_allocator(X, i, newAlloc) ==
    IF alloc_is_always_equal(X) \/ X.v[i].al = newAlloc
    THEN [X EXCEPT !.v[i].al = newAlloc]
    ELSE IF empty(X, i)
    THEN Bind([X1 \in {deallocate_pp(X, i, m_data(X, i), m_capacity(X, i))} |->
             [reset(X1, i) EXCEPT !.v[i].al = newAlloc]])
    ELSE Bind([temp \in {vector_range(Born(X, newAlloc), B, MoveIt(ibegin(X, i)), MoveIt(iend(X, i)))} |->
         Bind([X1 \in {swap(temp, i, B)} |->
             [vector_destroy(X1, B) EXCEPT !.v[B].alive = FALSE, !.v[B].al = 1]])])

\* get_allocator()
get_allocator(X, i) == X.v[i].al

\* set_allocator(a) on the only vector
SetAllocator ==
    /\ ReadyNew
    /\ \E al \in AllocIds :
        /\ \E X \in {set_allocator(Begin, A, al)} :
              Return(X, [Call("set_allocator", A) EXCEPT !.count = al, !.val = get_allocator(Begin, A)])

NextFrom == CopyConstruct \/ MoveConstruct \/ MoveConstructAlloc \/ SetAllocator

NextCompare == Equal \/ NotEqual \/ Less \/ LessEqual \/ Greater \/ GreaterEqual

NextPair == CopyAssign \/ MoveAssign \/ Swap \/ Destroy \/ NextFrom \/ NextCompare

Init == InitSeq \/ InitOps \/ InitPair
Next == NextOps \/ NextNew \/ NextPair

Spec == Init /\ [][Next]_vars
SpecOps == InitOps /\ [][NextOps \/ NextNew \/ NextFrom]_vars
SpecPair == InitPair /\ [][NextPair]_vars

\* ---------------------------------------------------------------- claims
\* the vectors that exist, while the program runs
Vectors == IF crashed THEN {} ELSE {i \in {A, B} : vec[i].alive}

\* C1: after any sequence of public operations the cursors of a vector
\* are ordered, data <= live_end <= capacity_end, within one buffer, so
\* 0 <= size() <= capacity(); empty() holds exactly when size() = 0 and
\* full() exactly when size() = capacity().
C1_CursorsOrdered ==
    \A i \in Vectors :
        /\ m_data(Begin, i)[1] = m_size(Begin, i)[1]
        /\ m_size(Begin, i)[1] = m_capacity(Begin, i)[1]
        /\ 0 <= size(Begin, i)
        /\ size(Begin, i) <= capacity(Begin, i)
        /\ empty(Begin, i) <=> (size(Begin, i) = 0)
        /\ full(Begin, i) <=> (size(Begin, i) = capacity(Begin, i))

\* a sequence of operations has left A neither empty nor full
C1_Witness ==
    /\ mode = "sequence" /\ A \in Vectors
    /\ size(Begin, A) = 3 /\ capacity(Begin, A) = 4
    /\ ~empty(Begin, A) /\ ~full(Begin, A)

\* C2: for a type with a non-trivial destructor no operation constructs
\* onto a constructed slot, assigns to or destroys an uninitialised slot,
\* and when it returns the constructed slots are exactly [data, live_end).
SlotFaults == {"construct_on_live", "assign_to_uninit", "destroy_uninit", "live_range_mismatch"}
C2_SlotDiscipline == (~crashed /\ ~traits.trivial) => faults \cap SlotFaults = {}

\* C3: the cursors of a vector are all null or all non-null, and they are
\* null exactly when capacity() = 0.
C3_NullState ==
    \A i \in Vectors :
        /\ (m_data(Begin, i) = NULL) <=> (m_size(Begin, i) = NULL)
        /\ (m_size(Begin, i) = NULL) <=> (m_capacity(Begin, i) = NULL)
        /\ (m_data(Begin, i) = NULL) <=> (capacity(Begin, i) = 0)

\* shrink_to_fit() on an emptied vector with a buffer has returned it to
\* the null state
C3_Witness ==
    /\ mode = "single" /\ A \in Vectors
    /\ last.op = "shrink_to_fit" /\ last.preCap > 0 /\ ~last.preNull
    /\ m_data(Begin, A) = NULL /\ capacity(Begin, A) = 0

\* the call that has just returned, if the program runs
Returned(op) == ~crashed /\ last.op = op
Now(i) == Contents(Begin, i)
InsertedAt(q, k, x) == SubSeq(q, 1, k) \o x \o SubSeq(q, k + 1, Len(q))

\* C4: a single insertion (push_back, emplace_back, insert of one element,
\* of count copies or of a range, emplace) that changes capacity() leaves
\* it at least twice what it was (at least 2 from 0) and at least size().
InsertOps == {"push_back", "push_back_default", "emplace_back", "emplace", "emplace_default",
              "insert", "insert_n", "insert_range"}
C4_Growth ==
    (~crashed /\ last.op \in InsertOps /\ capacity(Begin, A) # last.preCap)
        => /\ capacity(Begin, A) >= (IF last.preCap = 0 THEN 2 ELSE 2 * last.preCap)
           /\ capacity(Begin, A) >= size(Begin, A)

\* C5: push_back(value) on a full vector of capacity c ends with capacity
\* 2 when c = 0 and 2 * c otherwise; on a vector that is not full the
\* capacity stays; either way the elements are the old ones followed by
\* value.  Three push_backs of 1, 2, 3 on an empty vector give [1, 2, 3]
\* with capacity 4.
PushedThrice ==
    push_back(push_back(push_back(Fresh(traits), A, ValRef(1)), A, ValRef(2)), A, ValRef(3))
C5_PushBack ==
    /\ Returned("push_back") =>
          /\ Now(A) = Append(last.pre, last.val)
          /\ capacity(Begin, A) = (IF Len(last.pre) # last.preCap THEN last.preCap
                                   ELSE IF last.preCap = 0 THEN 2 ELSE 2 * last.preCap)
    /\ Contents(PushedThrice, A) = <<1, 2, 3>>
    /\ capacity(PushedThrice, A) = 4

\* push_back on a full vector with elements has returned
C5_Witness ==
    /\ Returned("push_back") /\ last.preCap > 0 /\ Len(last.pre) = last.preCap
    /\ Now(A) = Append(last.pre, last.val)
    /\ capacity(Begin, A) = 2 * last.preCap

\* C6: vector(S.begin(), S.end()) has the elements of S in order, for a
\* multi-pass and for a single-pass traversal of S.
C6_RangeRoundTrip == Returned("vector_range") => Now(B) = last.src

\* C7: V.erase(V.insert(p, x)) leaves V with the elements it had.
C7_InsertEraseInverse == Returned("erase_insert") => Now(A) = last.pre

\* the insert reallocated, in the middle of the vector
C7_Witness ==
    /\ Returned("erase_insert") /\ Len(last.pre) = last.preCap /\ last.pos < Len(last.pre)
    /\ capacity(Begin, A) > last.preCap
    /\ Now(A) = last.pre

\* C8: v.insert(v.begin() + j, v[i]) puts the value v[i] had at index j,
\* the other elements keep their order, and the value is not read from a
\* slot that was shifted, moved from or deallocated.
StaleReads == {"read_moved_from", "read_uninit", "wild_read"}
C8_SelfInsert ==
    (Returned("insert") /\ last.arg.k = "ptr")
        => /\ Now(A) = InsertedAt(last.pre, last.pos, <<last.val>>)
           /\ faults \cap StaleReads = {}

\* the last element of a full vector was inserted at its front, and the
\* two differ
C8_Witness ==
    /\ Returned("insert") /\ last.arg.k = "ptr" /\ last.pos = 0
    /\ Len(last.pre) = last.preCap /\ Len(last.pre) >= 2
    /\ last.val = last.pre[Len(last.pre)] /\ last.val # last.pre[1]
    /\ Now(A) = <<last.val>> \o last.pre

\* C9: after B = move(A), with the allocator propagating on move
\* assignment as std::allocator does, A is empty and B holds the elements
\* A had, whatever B held.
C9_MoveAssign ==
    (Returned("move_assign") /\ traits.propMove)
        => /\ empty(Begin, 3 - last.on)
           /\ size(Begin, 3 - last.on) = 0
           /\ Now(last.on) = last.other

\* both vectors held elements
C9_Witness ==
    /\ Returned("move_assign") /\ traits.propMove
    /\ last.pre # <<>> /\ last.other # <<>> /\ last.pre # last.other
    /\ Now(last.on) = last.other /\ Now(3 - last.on) = <<>>

\* C10, as stated: a move construction or move assignment that hands the
\* buffer of the source to the destination leaves the source null.
Moves == {"vector_move", "vector_move_alloc", "move_assign"}
IsNull(i) == m_data(Begin, i) = NULL /\ m_size(Begin, i) = NULL /\ m_capacity(Begin, i) = NULL
C10_SourceNull ==
    (~crashed /\ last.op \in Moves /\ last.moved) => IsNull(3 - last.on) /\ capacity(Begin, 3 - last.on) = 0

\* C10, amended: a move construction that hands over the buffer leaves the
\* source null; a move assignment that hands it over leaves the source
\* empty, and null or with the buffer the destination had; with
\* allocators that always compare equal it is null exactly when the
\* destination had no buffer.
C10_SourceNullOrSwapped ==
    /\ (~crashed /\ last.op \in {"vector_move", "vector_move_alloc"} /\ last.moved)
          => IsNull(3 - last.on) /\ capacity(Begin, 3 - last.on) = 0
    /\ (Returned("move_assign") /\ last.moved)
          => /\ size(Begin, 3 - last.on) = 0
             /\ \/ IsNull(3 - last.on)
                \/ ~last.preNull /\ capacity(Begin, 3 - last.on) = last.preCap
             /\ traits.alwaysEq => (IsNull(3 - last.on) <=> last.preNull)

\* a move assignment took the buffer of the source and left it the one of
\* the destination
C10_Witness ==
    /\ Returned("move_assign") /\ last.moved /\ ~last.preNull
    /\ ~IsNull(3 - last.on) /\ capacity(Begin, 3 - last.on) = last.preCap

\* C11: erase(first, last), and erase(position) as the range of one
\* element, leaves the old elements before first followed by the old
\* elements from last on, returns an iterator to the element that followed
\* the erased range, and keeps capacity() and the data pointer, with no
\* allocation or deallocation; the call always completes.
Erased(q, k, l) == SubSeq(q, 1, k) \o SubSeq(q, l + 1, Len(q))
C11_Erase ==
    /\ last.op \in {"erase", "erase_range"} => ~crashed
    /\ Returned("erase_range")
          => /\ Now(A) = Erased(last.pre, last.pos, last.pos2)
             /\ size(Begin, A) = Len(last.pre) - (last.pos2 - last.pos)
             /\ last.ret = last.pos
             /\ capacity(Begin, A) = last.preCap /\ last.kept
    /\ Returned("erase")
          => /\ Now(A) = Erased(last.pre, last.pos, last.pos + 1)
             /\ size(Begin, A) = Len(last.pre) - 1
             /\ last.ret = last.pos
             /\ capacity(Begin, A) = last.preCap /\ last.kept

\* the middle element of three was erased, and a different one follows
C11_Witness ==
    /\ Returned("erase_range") /\ Len(last.pre) = 3 /\ last.pos = 1 /\ last.pos2 = 2
    /\ last.pre[2] # last.pre[3]
    /\ Now(A) = <<last.pre[1], last.pre[3]>> /\ last.ret = 1 /\ last.kept

C14_InsertRangeReturn ==
    (Returned("insert_range") /\ Len(last.src) >= 1) => last.ret = last.pos

\* C15: an insert of zero elements, insert(position, 0, value) or
\* insert(position, first, last) with first = last, at any position,
\* returns position and leaves size, capacity and every element as they
\* were.
ZeroInsert ==
    \/ last.op = "insert_n" /\ last.count = 0
    \/ last.op = "insert_range" /\ last.src = <<>>
C15_ZeroInsert ==
    ZeroInsert => /\ ~crashed
                  /\ Now(A) = last.pre /\ size(Begin, A) = Len(last.pre)
                  /\ capacity(Begin, A) = last.preCap
                  /\ last.ret = last.pos

\* C16: insert(position, count, value) with count >= 1 completes and yields
\* the old elements before position, count copies of value, and the old
\* elements from position on; size() grows by count and the iterator
\* returned points to the first copy, also when value is an element of
\* the vector.
Copies(n, x) == [k \in 1..n |-> x]
C16_InsertCount ==
    (last.op = "insert_n" /\ last.count >= 1)
        => /\ ~crashed
           /\ Now(A) = InsertedAt(last.pre, last.pos, Copies(last.count, last.val))
           /\ size(Begin, A) = Len(last.pre) + last.count
           /\ last.ret = last.pos

\* the sequence q with its elements at indices k..l-1 replaced by x
Replaced(q, k, l, x) == InsertedAt(Erased(q, k, l), k, x)

\* C17: replace(first, last, newFirst, newLast) completes and leaves the
\* vector with the element sequence and size that insert(erase(first, last),
\* newFirst, newLast) leaves: the old elements before first, then the
\* replacement sequence, then the old elements from last on.
C17_ReplaceAsEraseInsert ==
    last.op = "replace_range"
        => /\ ~crashed
           /\ Now(A) = last.ref
           /\ Now(A) = Replaced(last.pre, last.pos, last.pos2, last.src)
           /\ size(Begin, A) = Len(last.pre) - (last.pos2 - last.pos) + Len(last.src)

\* the number of elements a replace call put in place of the removed range
Replacements == IF last.op = "replace_range" THEN Len(last.src) ELSE last.count

\* C18: every replace overload that returns, returns begin() + (index of
\* first) + (number of replacement elements), one past the last element it
\* put in place of the removed range.
C18_ReplaceReturn ==
    (Returned("replace_n") \/ Returned("replace_n_val") \/ Returned("replace_range"))
        => last.ret = last.pos + Replacements

\* p is less than q, size first: p is shorter, or as long as q and less at
\* the first index where they differ
SizeFirstLess(p, q) ==
    \/ Len(p) < Len(q)
    \/ /\ Len(p) = Len(q)
       /\ \E k \in 1..Len(p) : p[k] < q[k] /\ \A j \in 1..(k - 1) : p[j] = q[j]

\* the vector a comparison was called on, and the vector it was given
Lhs == last.on
Rhs == 3 - last.on

\* C19: a < b returns whether a is less than b size first, then
\* lexicographically, and a <= b returns true exactly when b < a returns
\* false, for every pair of vectors a and b.
C19_LessEqual ==
    /\ Returned("operator_lt") => last.res = SizeFirstLess(Now(Lhs), Now(Rhs))
    /\ Returned("operator_le") => /\ last.res = ~operator_lt(Begin, Rhs, Lhs)
                                  /\ last.res = ~SizeFirstLess(Now(Rhs), Now(Lhs))
    /\ last.op \in {"operator_lt", "operator_le"} => ~crashed /\ faults = {}

\* a <= b was called on vectors of two elements that differ in the second
\* only, a the greater, and returned false
C19_Witness ==
    /\ Returned("operator_le") /\ Lhs = A
    /\ Len(Now(A)) = 2 /\ Len(Now(B)) = 2
    /\ Now(A)[1] = Now(B)[1] /\ Now(A)[2] > Now(B)[2]
    /\ operator_lt(Begin, B, A)
    /\ ~last.res

\* C20: a > b returns what b < a returns, a >= b returns true exactly when
\* a < b returns false, which is what b <= a returns, a != b is the negation
\* of a == b, a == b holds exactly for equal element sequences, and exactly
\* one of a < b, a == b, a > b holds.
C20_Greater ==
    /\ Returned("operator_gt") => last.res = operator_lt(Begin, Rhs, Lhs)
    /\ Returned("operator_ge") => /\ last.res = ~operator_lt(Begin, Lhs, Rhs)
                                  /\ last.res = operator_le(Begin, Rhs, Lhs)
    /\ Returned("operator_ne") => last.res = ~operator_eq(Begin, Lhs, Rhs)
    /\ Returned("operator_eq") => /\ last.res = (Now(Lhs) = Now(Rhs))
                                  /\ Cardinality({r \in {"lt", "eq", "gt"} :
                                        \/ r = "lt" /\ operator_lt(Begin, Lhs, Rhs)
                                        \/ r = "eq" /\ operator_eq(Begin, Lhs, Rhs)
                                        \/ r = "gt" /\ operator_gt(Begin, Lhs, Rhs)}) = 1

\* a call on an empty vector that is to do nothing
OnEmpty ==
    /\ last.pre = <<>>
    /\ \/ last.op \in {"pop_back", "erase_begin"}
       \/ last.op = "erase_range" /\ last.pos = 0 /\ last.pos2 = 0

\* C21: on an empty vector, null or allocated, pop_back(), erase(begin())
\* and erase(begin(), end()) complete without a fault and leave size,
\* capacity and the cursors as they were.
C21_EmptyNoOps ==
    OnEmpty => /\ ~crashed
               /\ faults = {}
               /\ size(Begin, A) = 0
               /\ capacity(Begin, A) = last.preCap
               /\ (m_data(Begin, A) = NULL) = last.preNull
               /\ Allocations(Begin) = 0

\* C22: at(index) returns the element at index when index < size(), and
\* throws out_of_range when index >= size(), on a null vector and for
\* indices within the capacity too; the vector is unchanged either way.
C22_At ==
    last.op = "at"
        => /\ ~crashed
           /\ faults = {}
           /\ Now(A) = last.pre /\ capacity(Begin, A) = last.preCap /\ last.kept
           /\ IF last.pos < Len(last.pre)
              THEN last.thrown = "none" /\ last.ret = last.pos /\ last.val = last.pre[last.pos + 1]
              ELSE last.thrown = "out_of_range"

\* C23: when the allocator throws during reserve, push_back, emplace_back,
\* insert, emplace or resize, the exception leaves the call and the vector
\* has the element sequence, the size, the capacity and the buffer it had
\* before the call, with nothing leaked.
C23_StrongGuarantee ==
    last.op = "bad_alloc"
        => /\ ~crashed
           /\ last.thrown = "bad_alloc"
           /\ Now(A) = last.pre
           /\ size(Begin, A) = Len(last.pre)
           /\ capacity(Begin, A) = last.preCap
           /\ last.kept
           /\ faults = {}

\* the sequence an assign call was given
Assigned == IF last.op = "assign_n" THEN Copies(last.count, last.val) ELSE last.src

\* C24: assign(count, value) leaves exactly count copies of value and
\* assign(first, last) exactly the source sequence, from multi-pass and
\* single-pass sources and from every prior size; the capacity never
\* decreases, and when the new size is within the old capacity the capacity
\* and the data pointer are unchanged.
C24_Assign ==
    last.op \in {"assign_n", "assign_range"}
        => /\ ~crashed
           /\ Now(A) = Assigned
           /\ size(Begin, A) = Len(Assigned)
           /\ capacity(Begin, A) >= last.preCap
           /\ Len(Assigned) <= last.preCap => capacity(Begin, A) = last.preCap /\ last.kept

\* assign(first, last) with an empty single-pass range on a null vector of
\* trivially destructible elements
EmptyOntoNull ==
    /\ last.op = "assign_range" /\ last.kind = "single" /\ last.src = <<>>
    /\ last.preNull /\ traits.trivial

\* the assign postconditions hold everywhere else: an empty single-pass range
\* assigned to a null vector of trivially destructible elements allocates a
\* buffer of sixteen elements.
AssignExceptEmptyOntoNull ==
    last.op \in {"assign_n", "assign_range"}
        => /\ ~crashed
           /\ Now(A) = Assigned
           /\ size(Begin, A) = Len(Assigned)
           /\ capacity(Begin, A) >= last.preCap
           /\ IF EmptyOntoNull THEN capacity(Begin, A) = 16
              ELSE Len(Assigned) <= last.preCap => capacity(Begin, A) = last.preCap /\ last.kept

\* the operations that choose their path by use_simple_insert
DualPath == {"push_back", "emplace_back", "insert", "emplace", "insert_n"}

\* C25: for push_back, emplace_back, single-element insert and emplace, and
\* insert(position, count, value), the path taken when use_simple_insert is
\* true and the path taken when it is false end in the same element
\* sequence, the same size and the same capacity, from every starting state
\* and for every argument, aliasing ones included, and neither path has
\* undefined behaviour.
C25_SamePaths ==
    last.op \in DualPath
        => /\ ~crashed
           /\ last.alt[1].f \cap UBFaults = {}
           /\ Now(A) = last.alt[1].seq
           /\ size(Begin, A) = last.alt[1].size
           /\ capacity(Begin, A) = last.alt[1].cap

\* the slot at index k of the buffer the vector owns
Held(k) == Slot(Begin, PAdd(m_data(Begin, A), k))

\* C26: make_gap_n(position, count) called with size + count above the
\* capacity adopts a buffer of capacity exactly best_capacity(size + count),
\* the larger of size + count and next_capacity(capacity); the elements
\* before position keep their indices, those from position on are count
\* slots later, and the returned gap is entirely uninitialized.
C26_MakeGap ==
    last.op = "make_gap_n"
        => /\ ~crashed /\ faults \cap UBFaults = {}
           /\ capacity(Begin, A) = Max(Len(last.pre) + last.count, next_capacity(last.preCap))
           /\ size(Begin, A) = Len(last.pre) + last.count
           /\ \A j \in 0..(last.pos - 1) : Held(j) = last.pre[j + 1]
           /\ \A j \in last.pos..(Len(last.pre) - 1) : Held(j + last.count) = last.pre[j + 1]
           /\ last.ret = last.pos /\ last.res
           /\ \A j \in 0..(last.count - 1) : Held(last.pos + j) = U

\* what allocator_traits::deallocate may not be given: a null pointer, a
\* pointer that is not the start of a buffer now allocated, a size other
\* than the one allocated, or a buffer of an unequal allocator
DeallocFaults == {"dealloc_null", "dealloc_bad_pointer", "dealloc_wrong_size", "dealloc_wrong_allocator"}

\* C27: every deallocate(p, n) issued by a vector operation passes the
\* pointer returned by an earlier allocate(n) with the same n on an equal
\* allocator and not deallocated since: the start of the storage, never
\* another cursor.
C27_Deallocate == faults \cap DeallocFaults = {}

\* the operations that keep the elements when they change the buffer
Relocating == {"reserve", "shrink_to_fit", "make_gap_n", "resize", "resize_val",
               "push_back", "push_back_default", "emplace_back", "emplace", "emplace_default",
               "insert", "insert_n", "insert_range", "replace_n", "replace_n_val", "replace_range"}

\* the operation moved the vector from the buffer it owned to another one
Relocated == last.op \in Relocating /\ last.old # 0 /\ last.new # 0 /\ last.new # last.old

\* the places in the log of the calls of one kind on the old buffer
OnOld(kind) == {a \in 1..Len(last.log) : last.log[a][1] = kind /\ last.log[a][2] = last.old}
Resets == {a \in 1..Len(last.log) : last.log[a][1] = "reset"}

\* the indices of the old elements that the operation keeps
Survivors ==
    IF last.op \in {"replace_n", "replace_n_val", "replace_range"}
    THEN (0..(last.pos - 1)) \cup (last.pos2..(Len(last.pre) - 1))
    ELSE 0..(Len(last.pre) - 1)

AllMoved == \A k \in Survivors : \E a \in OnOld("move") : last.log[a][3] = k
MovedFirst == \A a \in OnOld("move"), d \in OnOld("destroy") \cup OnOld("deallocate") : a < d
DestroyedFirst == \A d \in OnOld("destroy"), f \in OnOld("deallocate") : d < f
SwitchedLast == Resets # {} /\ \A r \in Resets : \E f \in OnOld("deallocate") : f < r
ReleasedOnce ==
    /\ Cardinality(OnOld("deallocate")) = 1
    /\ \A f \in OnOld("deallocate") : last.log[f][3] = 0
    /\ ~traits.trivial => \A k \in 0..(Len(last.pre) - 1) :
                              Cardinality({d \in OnOld("destroy") : last.log[d][3] = k}) = 1

\* C28: in every relocating path all live elements of the old buffer are
\* move-constructed into the new buffer before any element of the old
\* buffer is destroyed and before the old buffer is deallocated; the
\* cursors are switched to the new buffer only after the old one has been
\* released; the old buffer is destroyed and deallocated exactly once.
C28_RelocationOrder ==
    Relocated => AllMoved /\ MovedFirst /\ DestroyedFirst /\ SwitchedLast /\ ReleasedOnce

\* the buffers now allocated, other than the one the vector owns
Stray == {b \in DOMAIN heap : m_data(Begin, A) = NULL \/ b # m_data(Begin, A)[1]}

\* C29: after set_allocator(a), for every combination of propagate_on_swap
\* and always_equal and for empty and non-empty vectors, get_allocator()
\* equals a, the element sequence is unchanged, every buffer of an
\* allocator not equal to a has been released through the allocator that
\* produced it, and the buffer the vector owns was allocated by an
\* allocator equal to a.
C29_SetAllocator ==
    last.op = "set_allocator"
        => /\ ~crashed
           /\ AllocEq(Begin, get_allocator(Begin, A), last.count)
           /\ Now(A) = last.pre
           /\ "dealloc_wrong_allocator" \notin faults
           /\ Stray = {}
           /\ m_data(Begin, A) # NULL => AllocEq(Begin, heap[m_data(Begin, A)[1]].a, last.count)

\* what move_forward_1 and move_forward_n require of their callers
MoveForwardFaults == {"assert_move_forward_1", "assert_move_forward_n_position",
                      "assert_move_forward_n_sz", "move_forward_n_over_capacity"}

\* C30: for every public operation called with valid arguments, each time
\* move_forward_1 or move_forward_n is entered its preconditions hold:
\* position != iend() and, for move_forward_n, sz > 0 and size + sz <=
\* capacity; insert with count 0 or an empty range before end(), and replace
\* of a range that ends at end() or is empty, are among these.
C30_MoveForward == last.op # "make_gap_n" => faults \cap MoveForwardFaults = {}

====
